---- MODULE Spec2Model ----
(***************************************************************************)
(* A model of the MOEX trading bot's Position Ledger (StateManager in      *)
(* scr/core/state_manager.py): the positions dictionary, the lifecycle     *)
(* state with its handler tasks, and the asyncio lock.                     *)
(*                                                                         *)
(* Python objects are modelled with a heap: the dictionary `positions`     *)
(* maps a key to an object identity and `heap` maps an identity to the     *)
(* Position it holds, so that mutation in place (position.volume = ...)    *)
(* and replacement (self.positions[k] = Position(...)) stay distinct.      *)
(* Prices held by a Position are Python floats; they are modelled as exact *)
(* rationals [n, d] in lowest terms, i.e. without rounding error.          *)
(* Timestamps (open_time, close_time, Order.timestamp) and the never-used  *)
(* Position.orders list carry no control flow and are left out.            *)
(***************************************************************************)
EXTENDS Integers, Sequences, FiniteSets, TLC

VARIABLES
    positions,   \* StateManager.positions: key -> object identity
    heap,        \* object identity -> Position (the objects that are still referenced)
    last,        \* history: the order update looked at last, with its instrument's position before it
    run,         \* history: per instrument, the BUY fills since it last had no OPEN position
    held,        \* what a caller got from get_position / get_open_positions: <<identity, value at the read>>
    botState,    \* StateManager._state
    tasks,       \* the handler tasks asyncio.create_task has made, in creation order
    log,         \* the lifecycle log lines (INFO and above), each with the setter call it belongs to
    lock,        \* StateManager._lock: the task holding it, or NoTask
    pc,          \* task -> label of the statement it is at
    job,         \* task -> its call (operation and argument)
    loc,         \* task -> its local variables
    cpu,         \* the task the event loop is running, or NoTask between tasks
    bot,         \* TradingBot: _shutdown_event, the state of _main_loop_task, the cycle in flight
    executor,    \* TradeExecutor: session and _active_orders (insertion-ordered)
    trace,       \* history: what the orchestrator has logged and done so far
    broker,      \* TradeExecutor: broker_type and _order_counter
    wire,        \* history: what went to the venue and how the last call of the executor ended
    risk,        \* RiskManager: its config, the call in hand and its verdict
    retry        \* one call of a function wrapped by async_retry: policy, position, history

ledgerVars == <<positions, heap, last, run>>
lifeVars   == <<botState, tasks, log>>
taskVars   == <<lock, pc, job, loc, cpu>>
botVars    == <<bot, executor, trace>>
execVars   == <<broker, wire>>
riskVars   == <<risk>>
retryVars  == <<retry>>
vars       == <<positions, heap, last, run, held, botState, tasks, log, lock, pc, job, loc, cpu,
               bot, executor, trace, broker, wire, risk, retry>>

-----------------------------------------------------------------------------
(* Bounds of the model *)

MaxRun   == 3        \* BUY fills averaged into one position
MaxSets  == 2        \* calls of the current_state setter in one behaviour
MaxBatch == 2        \* orders in the execution_results of a concurrent update call
MaxCycles == 2       \* cycles the main loop starts in one behaviour
MaxOrders == 2       \* orders in _active_orders when close_all_positions is called
MaxPasses == 2       \* calls of close_all_positions by one caller
MaxSignals == 2      \* signals in one pass of the risk gate
MaxRetries == 3      \* max_retries of a retry policy

Tickers == {"X", "Y"}
Prices  == {100, 120}
Volumes == {1, 2}

-----------------------------------------------------------------------------
(* Enumerations: state_manager.py lines 10-19 and 43-48 *)

PositionStatus == {"OPEN", "CLOSED", "PENDING"}
OrderType      == {"BUY", "SELL", "STOP_LOSS", "TAKE_PROFIT"}
BotState       == {"STARTING", "RUNNING", "PAUSED", "SHUTTING_DOWN", "ERROR"}

None   == 0          \* Python's None, where an object identity is expected
NoTask == "none"

-----------------------------------------------------------------------------
(* Exact rationals standing for the float fields *)

RECURSIVE GCD(_, _)
GCD(a, b) == IF b = 0 THEN a ELSE GCD(b, a % b)

Abs(x) == IF x < 0 THEN -x ELSE x

Rat(n, d) ==
    LET g == GCD(Abs(n), d)
    IN  [n |-> n \div g, d |-> d \div g]

RatInt(i) == [n |-> i, d |-> 1]

-----------------------------------------------------------------------------
(* Dictionary operations on `positions` *)

DictGet(dict, key) == IF key \in DOMAIN dict THEN dict[key] ELSE None

DictSet(dict, key, value) ==
    [k \in DOMAIN dict \cup {key} |-> IF k = key THEN value ELSE dict[k]]

EmptyDict == [k \in {} |-> None]

(* The smallest identity no live object has *)
Alloc(h) == CHOOSE i \in 1..(Cardinality(DOMAIN h) + 1) : i \notin DOMAIN h

(* Reference counting: an object nobody refers to is gone *)
Collect(L, roots) ==
    LET live == {L.positions[k] : k \in DOMAIN L.positions} \cup roots
    IN  [positions |-> L.positions,
         heap      |-> [i \in DOMAIN L.heap \cap live |-> L.heap[i]]]

-----------------------------------------------------------------------------
(* StateManager._update_positions, lines 85-116 *)

(* The key a fill's position is stored under: order.ticker, lines 87 and 100 *)
PositionKey_ByOrderId(order) == order.order_id

PositionKey(order) == order.ticker

(* Lines 100-107: Position(ticker, entry_price, current_price, volume, OPEN) *)
NewPosition(order) ==
    [ticker        |-> order.ticker,
     entry_price   |-> RatInt(order.price),
     current_price |-> order.price,
     volume        |-> order.volume,
     status        |-> "OPEN",
     pnl           |-> RatInt(0)]

(* Lines 92-96: the averaged entry price *)
AveragedEntry_Unweighted(position, order) ==
    Rat(position.entry_price.n + order.price * position.entry_price.d,
        2 * position.entry_price.d)

AveragedEntry(position, order) ==
    LET total_volume == position.volume + order.volume
    IN  Rat(position.entry_price.n * position.volume
              + order.price * order.volume * position.entry_price.d,
            position.entry_price.d * total_volume)

(* Line 93, the first write of the averaging branch *)
WriteEntry(position, order) ==
    [position EXCEPT !.entry_price = AveragedEntry(position, order)]

(* Line 97, the second write: total_volume was computed at line 92 *)
WriteVolume(position, total_volume) ==
    [position EXCEPT !.volume = total_volume]

(* Line 114: pnl = (order.price - position.entry_price) * order.volume *)
ClosedPnl(position, order) ==
    Rat((order.price * position.entry_price.d - position.entry_price.n) * order.volume,
        position.entry_price.d)

(* Line 112 *)
WriteStatusClosed(position) == [position EXCEPT !.status = "CLOSED"]

(* Line 114 *)
WritePnl(position, order) == [position EXCEPT !.pnl = ClosedPnl(position, order)]

(* Lines 90 and 110: `position and position.status == PositionStatus.OPEN` *)
IsOpenRef_AnyStatus(L, ref) == ref # None

IsOpenRef(L, ref) == ref # None /\ L.heap[ref].status = "OPEN"

UpdatePositions(L, order) ==
    LET key      == PositionKey(order)
        position == DictGet(L.positions, key)
    IN  IF order.order_type = "BUY"
        THEN IF IsOpenRef(L, position)
             THEN [L EXCEPT !.heap[position] =
                       WriteVolume(WriteEntry(@, order), @.volume + order.volume)]
             ELSE LET fresh == Alloc(L.heap)
                  IN  [positions |-> DictSet(L.positions, key, fresh),
                       heap      |-> DictSet(L.heap, fresh, NewPosition(order))]
        ELSE IF order.order_type = "SELL"
        THEN IF IsOpenRef(L, position)
             THEN [L EXCEPT !.heap[position] = WritePnl(WriteStatusClosed(@), order)]
             ELSE L
        ELSE L

(* StateManager.update, lines 75-83: which orders of the input reach _update_positions *)
Applies_IgnoringExecuted(order) == order.order_type \in {"BUY", "SELL"}

Applies(order) == order.executed /\ order.order_type \in {"BUY", "SELL"}

-----------------------------------------------------------------------------
(* The ledger as one value, and what it shows for an instrument *)

Ledger == [positions |-> positions, heap |-> heap]

NoPosition ==
    [ticker |-> "", entry_price |-> RatInt(0), current_price |-> 0,
     volume |-> 0, status |-> "NONE", pnl |-> RatInt(0)]

NoOrder ==
    [order_id |-> "", ticker |-> "", order_type |-> "NONE",
     price |-> 0, volume |-> 0, executed |-> FALSE]

(* The positions of the ledger, one per key *)
PositionsOf(L) == {L.heap[L.positions[k]] : k \in DOMAIN L.positions}

(* self.positions.get(ticker), dereferenced; NoPosition for None *)
PositionAt(L, ticker) ==
    IF ticker \in DOMAIN L.positions THEN L.heap[L.positions[ticker]] ELSE NoPosition

-----------------------------------------------------------------------------
(* History variables.  They record what was asked of the ledger and read no  *)
(* decision of the code: a fill is an executed BUY or SELL order.            *)

IsFill(order) == order.executed /\ order.order_type \in {"BUY", "SELL"}

NoRun == [n |-> 0, volume |-> 0, notional |-> 0]

RunAfter(r, order, before) ==
    IF ~IsFill(order) THEN r
    ELSE IF order.order_type = "SELL" THEN NoRun
    ELSE IF before.status = "OPEN"
         THEN IF r.n = 0 THEN r
              ELSE [n |-> r.n + 1, volume |-> r.volume + order.volume,
                    notional |-> r.notional + order.price * order.volume]
         ELSE [n |-> 1, volume |-> order.volume, notional |-> order.price * order.volume]

(* What the history keeps of a position *)
Summary(position) ==
    [status |-> position.status, volume |-> position.volume,
     entry_price |-> position.entry_price, pnl |-> position.pnl]

(* What the history keeps of an order: a fill in full, any other order by its *)
(* instrument, type and executed flag                                         *)
Remembered(order) ==
    IF IsFill(order) THEN order
    ELSE [order EXCEPT !.order_id = "", !.price = 0, !.volume = 0]

NoLast ==
    [order |-> NoOrder,
     before |-> Summary(NoPosition),
     again |-> FALSE]

(* One order of the loop of update, lines 78-83 *)
ApplyOrder(S, order) ==
    LET before == PositionAt(S.L, order.ticker)
    IN  [L    |-> IF Applies(order) THEN UpdatePositions(S.L, order) ELSE S.L,
         last |-> [order  |-> Remembered(order),
                   before |-> Summary(before),
                   again  |-> (order = S.last.order)],
         run  |-> [S.run EXCEPT ![order.ticker] = RunAfter(@, order, before)]]

RECURSIVE ApplyAll(_, _)
ApplyAll(S, execution_results) ==
    IF execution_results = <<>>
    THEN S
    ELSE ApplyAll(ApplyOrder(S, Head(execution_results)), Tail(execution_results))

-----------------------------------------------------------------------------
(* The inputs of update: execution reports.  A new order never carries the    *)
(* order_id of the report before it; the report of a fill may come again.     *)

NextId(id) == IF id = "o1" THEN "o2" ELSE "o1"

InputTypes == {"BUY", "SELL", "STOP_LOSS"}

OrdersOver(tickers, prices, volumes, id) ==
    [order_id : {id}, ticker : tickers, order_type : InputTypes,
     price : prices, volume : volumes, executed : BOOLEAN]

Resubmitted(o) == IF IsFill(o) THEN {o} ELSE {}

(* Batches of one report, and of two *)
Singles(o, tickers, prices, volumes) ==
    {<<a>> : a \in OrdersOver(tickers, prices, volumes, NextId(o.order_id)) \cup Resubmitted(o)}

Pairs(o, tickers, prices, volumes) ==
    UNION {{<<a, b>> : b \in OrdersOver(tickers, prices, volumes, NextId(a.order_id))
                             \cup {a} \cup Resubmitted(o)}
           : a \in OrdersOver(tickers, prices, volumes, NextId(o.order_id)) \cup Resubmitted(o)}

-----------------------------------------------------------------------------
(* The operations of StateManager, each as one atomic action *)

(* asyncio.Lock: acquire goes through when nobody holds the lock *)
LockFree_Always == TRUE

LockFree == lock = NoTask

HeldRefs == {h[1] : h \in held}

(* update(execution_results), lines 75-83, under the lock *)
Update(execution_results) ==
    /\ LockFree
    /\ \E S \in {ApplyAll([L |-> Ledger, last |-> last, run |-> run], execution_results)} :
          /\ \A t \in Tickers : S.run[t].n <= MaxRun
          /\ \E G \in {Collect(S.L, HeldRefs)} :
                /\ positions' = G.positions
                /\ heap' = G.heap
          /\ last' = S.last
          /\ run' = S.run
    /\ UNCHANGED <<held, botState, tasks, log, lock, pc, job, loc, cpu, bot, executor, trace, execVars, riskVars, retryVars>>

(* get_open_positions, lines 118-124: the positions whose status is OPEN *)
OpenRefs_AnyStatus(L) == {L.positions[k] : k \in DOMAIN L.positions}

OpenRefs(L) == {L.positions[k] : k \in {j \in DOMAIN L.positions : L.heap[L.positions[j]].status = "OPEN"}}

(* What the caller holds of a result: each object returned, with its value then *)
Handles(L, refs) == {<<r, L.heap[r]>> : r \in refs}

GetOpenPositions ==
    /\ LockFree
    /\ held' = Handles(Ledger, OpenRefs(Ledger))
    /\ \E G \in {Collect(Ledger, OpenRefs(Ledger))} : positions' = G.positions /\ heap' = G.heap
    /\ UNCHANGED <<last, run, botState, tasks, log, lock, pc, job, loc, cpu, bot, executor, trace, execVars, riskVars, retryVars>>

(* get_position(ticker), lines 126-129: self.positions.get(ticker) *)
GetPosition(ticker) ==
    /\ LockFree
    /\ \E ref \in {DictGet(positions, ticker)} :
          /\ held' = Handles(Ledger, {ref} \ {None})
          /\ \E G \in {Collect(Ledger, {ref} \ {None})} : positions' = G.positions /\ heap' = G.heap
    /\ UNCHANGED <<last, run, botState, tasks, log, lock, pc, job, loc, cpu, bot, executor, trace, execVars, riskVars, retryVars>>

-----------------------------------------------------------------------------
(* The lifecycle state: the current_state setter and the handler tasks *)

Line(task, level, event, from, to, count) ==
    [task |-> task, level |-> level, event |-> event, from |-> from, to |-> to, count |-> count]

(* self._state_handlers, lines 57-63 *)
HandlerOf(state) == state

(* The setter, lines 69-73, as a function of the lifecycle variables *)
SetCurrentState(life, new_state) ==
    LET id == Len(life.tasks) + 1
    IN  [botState |-> new_state,
         log      |-> life.log \cup {Line(id, "INFO", "state_changed", life.botState, new_state, 0)},
         tasks    |-> Append(life.tasks, [state |-> new_state, handler |-> HandlerOf(new_state),
                                          pc |-> "created", open |-> -1])]

Life == [botState |-> botState, tasks |-> tasks, log |-> log]

SetState(new_state) ==
    /\ Len(tasks) < MaxSets
    /\ \E n \in {SetCurrentState(Life, new_state)} :
          /\ botState' = n.botState
          /\ log' = n.log
          /\ tasks' = n.tasks
    /\ UNCHANGED <<positions, heap, last, run, held, lock, pc, job, loc, cpu, bot, executor, trace, execVars, riskVars, retryVars>>

(* reset(), lines 131-135 *)
Reset ==
    /\ LockFree
    /\ Len(tasks) < MaxSets
    /\ \E G \in {Collect([positions |-> EmptyDict, heap |-> heap], HeldRefs)} :
          /\ positions' = G.positions
          /\ heap' = G.heap
    /\ \E n \in {SetCurrentState(Life, "STARTING")} :
          /\ botState' = n.botState
          /\ log' = n.log
          /\ tasks' = n.tasks
    /\ last' = NoLast
    /\ run' = [t \in Tickers |-> NoRun]
    /\ UNCHANGED <<held, lock, pc, job, loc, cpu, bot, executor, trace, execVars, riskVars, retryVars>>

(* The first line of each handler, lines 137-161 *)
FirstLine(i, handler) ==
    IF handler = "STARTING" THEN Line(i, "INFO", "initializing", "", "", 0)
    ELSE IF handler = "RUNNING" THEN Line(i, "INFO", "running", "", "", 0)
    ELSE IF handler = "PAUSED" THEN Line(i, "WARNING", "paused", "", "", 0)
    ELSE IF handler = "SHUTTING_DOWN" THEN Line(i, "INFO", "shutting_down", "", "", 0)
    ELSE Line(i, "ERROR", "error_state", "", "", 0)

Inspects(handler) == handler \in {"SHUTTING_DOWN", "ERROR"}

(* A handler task starts: it logs its first line and, in _handle_shutting_down *)
(* and _handle_error, reaches `await self.get_open_positions()`               *)
HandlerStart(i) ==
    /\ i \in DOMAIN tasks
    /\ tasks[i].pc = "created"
    /\ log' = log \cup {FirstLine(i, tasks[i].handler)}
    /\ tasks' = [tasks EXCEPT ![i].pc = IF Inspects(tasks[i].handler) THEN "awaiting" ELSE "done"]
    /\ UNCHANGED <<positions, heap, last, run, held, botState, lock, pc, job, loc, cpu, bot, executor, trace, execVars, riskVars, retryVars>>

(* Lines 153-154 and 160-161: the signal a handler emits for a non-empty list *)
Signal(i, handler, open_positions) ==
    IF open_positions = {} THEN {}
    ELSE IF handler = "SHUTTING_DOWN"
         THEN {Line(i, "WARNING", "positions_remain_open", "", "", Cardinality(open_positions))}
         ELSE {Line(i, "CRITICAL", "emergency_open_positions", "", "", Cardinality(open_positions))}

(* The handler gets the lock, reads the open positions and emits its signal *)
HandlerInspect(i) ==
    /\ i \in DOMAIN tasks
    /\ tasks[i].pc = "awaiting"
    /\ LockFree
    /\ log' = log \cup Signal(i, tasks[i].handler, OpenRefs(Ledger))
    /\ tasks' = [tasks EXCEPT ![i].pc = "done",
                              ![i].open = Cardinality({q \in PositionsOf(Ledger) : q.status = "OPEN"})]
    /\ UNCHANGED <<positions, heap, last, run, held, botState, lock, pc, job, loc, cpu, bot, executor, trace, execVars, riskVars, retryVars>>

-----------------------------------------------------------------------------
(* Concurrent calls, statement by statement.  Each call is a task of the     *)
(* event loop; a label is the line of state_manager.py the task is at.  The  *)
(* loop runs one task at a time and may change task only where the running  *)
(* one is at an `await` or `async with`; it is allowed to do so at every one *)
(* of them, which includes every switch asyncio makes.  The history          *)
(* variables follow whole update calls and stand still here.                 *)

Updaters == {"u1", "u2"}
Readers  == {"r1"}
Tasks    == Updaters \cup Readers

NoLocals == [i |-> 0, order |-> NoOrder, position |-> None, total_volume |-> 0]

(* Where the event loop may leave a task: lines 77, 83, 120 and 128, and its end *)
Yields(label) == label \in {"l77", "l83", "l120", "l128", "done"}

FirstLabel(call) ==
    IF call.op = "update" THEN "l77"
    ELSE IF call.op = "get_open_positions" THEN "l120"
    ELSE "l128"

(* The references the tasks' local variables hold *)
LocalRefs(locals) == {locals[t].position : t \in DOMAIN locals} \ {None}

(* The event loop runs t: no other task is in the middle of its statements *)
Runs(t) == cpu \in {NoTask, t}

(* The label t goes to; the loop may leave t there if it is an await *)
Goto(t, label) ==
    /\ pc' = [pc EXCEPT ![t] = label]
    /\ cpu' = IF Yields(label) THEN NoTask ELSE t

(* Lines 77, 120, 128: `async with self._lock` *)
Acquire(t) ==
    /\ Runs(t)
    /\ pc[t] \in {"l77", "l120", "l128"}
    /\ LockFree
    /\ lock' = t
    /\ Goto(t, IF pc[t] = "l77" THEN "l78" ELSE IF pc[t] = "l120" THEN "l121" ELSE "l129")
    /\ loc' = [loc EXCEPT ![t].i = 1]
    /\ UNCHANGED <<positions, heap, last, run, held, botState, tasks, log, job, bot, executor, trace, execVars, riskVars, retryVars>>

(* Lines 78-82: the next order of the loop, or the end of the `async with` *)
ForOrder(t) ==
    /\ Runs(t)
    /\ pc[t] = "l78"
    /\ IF loc[t].i > Len(job[t].execution_results)
       THEN /\ lock' = NoTask
            /\ Goto(t, "done")
            /\ loc' = [loc EXCEPT ![t] = NoLocals]
       ELSE \E order \in {job[t].execution_results[loc[t].i]} :
               /\ lock' = lock
               /\ IF Applies(order)
                  THEN Goto(t, "l83") /\ loc' = [loc EXCEPT ![t].order = order]
                  ELSE Goto(t, "l78") /\ loc' = [loc EXCEPT ![t].i = @ + 1]
    /\ UNCHANGED <<positions, heap, last, run, held, botState, tasks, log, job, bot, executor, trace, execVars, riskVars, retryVars>>

(* Line 83: `await self._update_positions(order)` *)
CallUpdatePositions(t) ==
    /\ Runs(t)
    /\ pc[t] = "l83"
    /\ Goto(t, "l87")
    /\ UNCHANGED <<positions, heap, last, run, held, botState, tasks, log, lock, job, loc, bot, executor, trace, execVars, riskVars, retryVars>>

(* Lines 87-90 and 109-110: read the position and choose the branch *)
ReadPosition(t) ==
    /\ Runs(t)
    /\ pc[t] = "l87"
    /\ \E position \in {DictGet(positions, PositionKey(loc[t].order))} :
          /\ loc' = [loc EXCEPT ![t].position = position]
          /\ IF loc[t].order.order_type = "BUY"
             THEN Goto(t, IF IsOpenRef(Ledger, position) THEN "l92" ELSE "l100")
             ELSE Goto(t, IF IsOpenRef(Ledger, position) THEN "l112" ELSE "l116")
    /\ UNCHANGED <<positions, heap, last, run, held, botState, tasks, log, lock, job, bot, executor, trace, execVars, riskVars, retryVars>>

(* Line 92: total_volume = position.volume + order.volume *)
TotalVolume(t) ==
    /\ Runs(t)
    /\ pc[t] = "l92"
    /\ loc' = [loc EXCEPT ![t].total_volume = heap[loc[t].position].volume + loc[t].order.volume]
    /\ Goto(t, "l93")
    /\ UNCHANGED <<positions, heap, last, run, held, botState, tasks, log, lock, job, bot, executor, trace, execVars, riskVars, retryVars>>

(* Lines 93-96: position.entry_price = ... *)
StoreEntry(t) ==
    /\ Runs(t)
    /\ pc[t] = "l93"
    /\ heap' = [heap EXCEPT ![loc[t].position] = WriteEntry(@, loc[t].order)]
    /\ Goto(t, "l97")
    /\ UNCHANGED <<positions, last, run, held, botState, tasks, log, lock, job, loc, bot, executor, trace, execVars, riskVars, retryVars>>

(* Line 97: position.volume = total_volume *)
StoreVolume(t) ==
    /\ Runs(t)
    /\ pc[t] = "l97"
    /\ heap' = [heap EXCEPT ![loc[t].position] = WriteVolume(@, loc[t].total_volume)]
    /\ Goto(t, "l116")
    /\ UNCHANGED <<positions, last, run, held, botState, tasks, log, lock, job, loc, bot, executor, trace, execVars, riskVars, retryVars>>

(* Lines 100-107: self.positions[order.ticker] = Position(...) *)
StoreNew(t) ==
    /\ Runs(t)
    /\ pc[t] = "l100"
    /\ \E fresh \in {Alloc(heap)} :
          \E G \in {Collect([positions |-> DictSet(positions, PositionKey(loc[t].order), fresh),
                             heap      |-> DictSet(heap, fresh, NewPosition(loc[t].order))],
                            HeldRefs \cup LocalRefs(loc))} :
             /\ positions' = G.positions
             /\ heap' = G.heap
    /\ Goto(t, "l116")
    /\ UNCHANGED <<last, run, held, botState, tasks, log, lock, job, loc, bot, executor, trace, execVars, riskVars, retryVars>>

(* Line 112: position.status = PositionStatus.CLOSED *)
StoreClosed(t) ==
    /\ Runs(t)
    /\ pc[t] = "l112"
    /\ heap' = [heap EXCEPT ![loc[t].position] = WriteStatusClosed(@)]
    /\ Goto(t, "l114")
    /\ UNCHANGED <<positions, last, run, held, botState, tasks, log, lock, job, loc, bot, executor, trace, execVars, riskVars, retryVars>>

(* Line 114: position.pnl = ... *)
StorePnl(t) ==
    /\ Runs(t)
    /\ pc[t] = "l114"
    /\ heap' = [heap EXCEPT ![loc[t].position] = WritePnl(@, loc[t].order)]
    /\ Goto(t, "l116")
    /\ UNCHANGED <<positions, last, run, held, botState, tasks, log, lock, job, loc, bot, executor, trace, execVars, riskVars, retryVars>>

(* Line 116 and the return to the loop of update *)
Return(t) ==
    /\ Runs(t)
    /\ pc[t] = "l116"
    /\ loc' = [loc EXCEPT ![t] = [NoLocals EXCEPT !.i = loc[t].i + 1]]
    /\ \E G \in {Collect(Ledger, HeldRefs \cup LocalRefs(loc'))} :
          /\ positions' = G.positions
          /\ heap' = G.heap
    /\ Goto(t, "l78")
    /\ UNCHANGED <<last, run, held, botState, tasks, log, lock, job, bot, executor, trace, execVars, riskVars, retryVars>>

(* Lines 121-124 and 129: the read itself, and the end of the `async with` *)
ReadLedger(t) ==
    /\ Runs(t)
    /\ pc[t] \in {"l121", "l129"}
    /\ \E refs \in {IF pc[t] = "l121" THEN OpenRefs(Ledger)
                    ELSE {DictGet(positions, job[t].ticker)} \ {None}} :
          /\ held' = Handles(Ledger, refs)
          /\ \E G \in {Collect(Ledger, refs \cup LocalRefs(loc))} :
                /\ positions' = G.positions
                /\ heap' = G.heap
    /\ lock' = NoTask
    /\ Goto(t, "done")
    /\ UNCHANGED <<last, run, botState, tasks, log, job, loc, bot, executor, trace, execVars, riskVars, retryVars>>

(* The event loop runs t for one statement *)
Step(t) ==
    \/ Acquire(t)
    \/ ForOrder(t)
    \/ CallUpdatePositions(t)
    \/ ReadPosition(t)
    \/ TotalVolume(t)
    \/ StoreEntry(t)
    \/ StoreVolume(t)
    \/ StoreNew(t)
    \/ StoreClosed(t)
    \/ StorePnl(t)
    \/ Return(t)
    \/ ReadLedger(t)

-----------------------------------------------------------------------------
(* TradingBot (scr/core/bot.py) and TradeExecutor (scr/trading/trade_executor.py). *)
(* The orchestrator is modelled against its collaborators as bot.py calls    *)
(* them: a call to the data handler, the strategy manager, the risk manager  *)
(* or the executor returns or raises.  Labels bNN are lines of bot.py.       *)

BotTickers == {"A", "B"}

BotTasks == {"run", "loop", "ext"}

FetchIdle == [ticker \in BotTickers |-> "idle"]

(* TradingBot.__init__, lines 30-39 *)
InitBot ==
    bot = [event          |-> FALSE,
           main_loop_task |-> FALSE,
           trade_executor |-> FALSE,
           cancel         |-> FALSE,     \* cancel() was called on _main_loop_task and not delivered yet
           cycles         |-> 0,
           fetch          |-> FetchIdle]

(* TradeExecutor.__init__, lines 24-30 *)
InitExecutor ==
    executor = [session |-> "none", active_orders |-> <<>>]

InitTrace ==
    trace = [critical  |-> FALSE,
             cause     |-> "none",
             completed |-> FALSE,
             released  |-> FALSE,
             flatten   |-> "none",
             fetches   |-> 0,
             submits   |-> 0,
             attempts  |-> {},
             sent      |-> <<>>,
             escaped   |-> "none"]

(* trading/__init__.py lines 40-43 *)
BrokerType == {"TINKOFF", "MOEX", "BINANCE"}

(* config 'slippage' in thousandths; 1 is the default 0.001 of line 168 *)
SlippageScale == 1000

Slippages == {1}

(* TradeExecutor.__init__, lines 27 and 29 *)
InitBroker == broker = [broker_type |-> "MOEX", order_counter |-> 0, slippage |-> 1]

(* async_retry (scr/utils/helpers.py lines 17-41), before a call: the       *)
(* policy is that of line 17's defaults, three attempts, delay 1, every      *)
(* Exception retried                                                         *)
NoException == [type |-> "none", attempt |-> 0]

RetryIdle ==
    [max_retries |-> 3, delay |-> 1, exceptions |-> {"Exception"},
     label |-> "idle", attempt |-> 0, attempts |-> 0, waits |-> <<>>, failures |-> <<>>,
     outcome |-> "none", result |-> "none", raised |-> NoException]

InitRetry == retry = RetryIdle

(* RiskManager.__init__, lines 109-122: what the checks read of the config;  *)
(* max_loss_pct is in percent (5 is the default 0.05 of line 165)            *)
DefaultConfig ==
    [max_active_positions |-> 5, max_leverage |-> 3, stop_loss_required |-> TRUE,
     max_loss_pct |-> 5]

NoSignal ==
    [ticker |-> "", action |-> "none", price |-> 0, volume |-> 0,
     has_stop_loss |-> FALSE, stop_loss |-> 0, has_capital |-> FALSE, capital |-> 0]

RiskIdle ==
    [op |-> "none", config |-> DefaultConfig, signal |-> NoSignal, signals |-> <<>>,
     positions |-> <<>>, verdict |-> "none", accepted |-> <<>>,
     signal_after |-> NoSignal, positions_after |-> <<>>,
     risk_level |-> "LOW", portfolio_risk |-> 0, previous_level |-> "LOW",
     drawdown |-> 0, volatility |-> 0]

InitRisk == risk = RiskIdle

-----------------------------------------------------------------------------
(* TradeExecutor.close_all_positions and execute_order, statement by         *)
(* statement.  Labels eNN are lines of trade_executor.py.  _active_orders is *)
(* a dict: a sequence of orders in insertion order, keyed by order_id.       *)

OrderStatus == {"PENDING", "PARTIALLY_FILLED", "FILLED", "REJECTED", "CANCELLED", "FAILED"}

(* An order id made by _generate_order_id is n; f"close_{id}" adds one prefix *)
OrderId(n) == [close |-> 0, n |-> n]

CloseId(order_id) == [order_id EXCEPT !.close = @ + 1]

NoExecOrder ==
    [order_id |-> OrderId(0), ticker |-> "", order_type |-> "NONE", price |-> 0,
     quantity |-> 0, status |-> "NONE", filled_quantity |-> 0]

NoFrame ==
    [i |-> 0, used |-> 0, order |-> NoExecOrder, sent |-> NoExecOrder,
     reports |-> <<>>, ret |-> "", signals |-> {}, approved |-> {}, results |-> {}]

(* Where the event loop may leave a task of the bot or of the executor *)
BotYields(label) ==
    label \in {"b70", "b77", "b113", "b82", "b91", "b97", "b132",
               "e41", "e222", "e79", "done", "failed", "cancelled", "returned"}

BotGoto(t, label) ==
    /\ pc' = [pc EXCEPT ![t] = label]
    /\ cpu' = IF BotYields(label) THEN NoTask ELSE t

(* dict lookup and store on _active_orders *)
IndexOf(active_orders, order_id) ==
    IF \E k \in DOMAIN active_orders : active_orders[k].order_id = order_id
    THEN CHOOSE k \in DOMAIN active_orders : active_orders[k].order_id = order_id
    ELSE 0

StoreOrder(active_orders, order) ==
    IF IndexOf(active_orders, order.order_id) = 0
    THEN Append(active_orders, order)
    ELSE [active_orders EXCEPT ![IndexOf(active_orders, order.order_id)] = order]

(* Line 216 *)
NeedsFlattening(order) == order.status \in {"PENDING", "PARTIALLY_FILLED"}

(* Lines 218-225: the flattening order for `order` at `price` *)
FlatteningOrder(order, price) ==
    [order_id        |-> CloseId(order.order_id),
     ticker          |-> order.ticker,
     order_type      |-> IF order.order_type = "BUY" THEN "SELL" ELSE "BUY",
     price           |-> price,
     quantity        |-> order.quantity - order.filled_quantity,
     status          |-> "PENDING",
     filled_quantity |-> 0]

(* _validate_order, lines 171-179 *)
ValidateOrder_PriceUnchecked(order) ==
    /\ order.quantity > 0
    /\ order.ticker \in BotTickers

ValidateOrder(order) ==
    /\ order.quantity > 0
    /\ order.price > 0
    /\ order.ticker \in BotTickers

(* _register_order, lines 138-143 (the order comes with an order_id) *)
RegisterOrder(active_orders, order) ==
    StoreOrder(active_orders, [order EXCEPT !.status = "PENDING"])

(* _update_order_status, lines 150-164 *)
StatusAfter(report) ==
    IF report.remaining_quantity = 0 THEN "FILLED"
    ELSE IF report.filled_quantity > 0 THEN "PARTIALLY_FILLED"
    ELSE "REJECTED"

UpdateOrderStatus(active_orders, report) ==
    LET k == IndexOf(active_orders, report.order_id)
    IN  IF k = 0 THEN active_orders
        ELSE [active_orders EXCEPT ![k].status = StatusAfter(report),
                                   ![k].filled_quantity = report.filled_quantity]

(* Line 227: the exceptions close_all_positions logs and skips *)
Skipped(exception) == exception = "TradeError"

(* Lines 90-93: what leaves execute_order when the execution failed:        *)
(* _update_order_status(OrderStatus.FAILED) reads report.order_id of an enum *)
(* member, so line 93 is not reached                                         *)
ExecutionFailure == "AttributeError"

(* What get_last_price may return (line 222) *)
ClosePrices == {0, 110}

(* What the venue may report for a submitted order (lines 115-122, 129-136) *)
ReportsFor(order) ==
    {[order_id |-> order.order_id, filled_quantity |-> order.quantity - r,
      fill_price |-> order.price, remaining_quantity |-> r] : r \in 0..order.quantity}

(* Line 214: close_all_positions is entered *)
CloseAllCall(t) ==
    /\ Runs(t)
    /\ pc[t] = "e214"
    /\ loc' = [loc EXCEPT ![t].i = 1, ![t].used = Len(executor.active_orders),
                          ![t].reports = <<>>]
    /\ trace' = [trace EXCEPT !.flatten = "started"]
    /\ BotGoto(t, "e215")
    /\ UNCHANGED <<ledgerVars, held, lifeVars, lock, job, bot, executor, execVars, riskVars, retryVars>>

(* An exception inside the try of lines 217-228 *)
RaisedInTry(t, exception) ==
    IF Skipped(exception)
    THEN /\ loc' = [loc EXCEPT ![t].i = @ + 1]
         /\ BotGoto(t, "e215")
         /\ trace' = trace
    ELSE /\ loc' = loc
         /\ BotGoto(t, "failed")
         /\ trace' = [trace EXCEPT !.flatten = "ended", !.escaped = exception]

(* Lines 215-216: the dict iterator gives the next order, stops or finds the *)
(* dict changed in size                                                      *)
ForNext(t) ==
    /\ Runs(t)
    /\ pc[t] = "e215"
    /\ IF Len(executor.active_orders) # loc[t].used
       THEN /\ BotGoto(t, "failed")
            /\ trace' = [trace EXCEPT !.flatten = "ended", !.escaped = "RuntimeError"]
            /\ loc' = loc
       ELSE IF loc[t].i > Len(executor.active_orders)
       THEN /\ BotGoto(t, loc[t].ret)
            /\ trace' = [trace EXCEPT !.flatten = "ended"]
            /\ loc' = loc
       ELSE \E order \in {executor.active_orders[loc[t].i]} :
               IF NeedsFlattening(order)
               THEN /\ BotGoto(t, "e222")
                    /\ trace' = [trace EXCEPT !.attempts = @ \cup {order.order_id}]
                    /\ loc' = [loc EXCEPT ![t].order = order]
               ELSE /\ BotGoto(t, "e215")
                    /\ trace' = trace
                    /\ loc' = [loc EXCEPT ![t].i = @ + 1]
    /\ UNCHANGED <<ledgerVars, held, lifeVars, lock, job, bot, executor, execVars, riskVars, retryVars>>

(* Line 222 returns a price; lines 218-225 build the order; execute_order   *)
(* validates and registers it (lines 69-73) and goes to the venue (line 79)  *)
PriceReturns(t) ==
    /\ Runs(t)
    /\ pc[t] = "e222"
    /\ \E price \in ClosePrices :
          \E order \in {FlatteningOrder(loc[t].order, price)} :
             IF ValidateOrder(order)
             THEN /\ executor' = [executor EXCEPT !.active_orders = RegisterOrder(@, order)]
                  /\ loc' = [loc EXCEPT ![t].sent = order]
                  /\ trace' = [trace EXCEPT !.sent = Append(@, order)]
                  /\ BotGoto(t, "e79")
             ELSE /\ executor' = executor
                  /\ RaisedInTry(t, ExecutionFailure)
    /\ UNCHANGED <<ledgerVars, held, lifeVars, lock, job, bot, execVars, riskVars, retryVars>>

(* Line 222 raises: get_last_price has no price to give *)
PriceRaises(t) ==
    /\ Runs(t)
    /\ pc[t] = "e222"
    /\ RaisedInTry(t, "LookupError")
    /\ UNCHANGED <<ledgerVars, held, lifeVars, lock, job, bot, executor, execVars, riskVars, retryVars>>

(* Lines 77-88 and 226: the venue reports; the status is updated *)
SubmitReturns(t) ==
    /\ Runs(t)
    /\ pc[t] = "e79"
    /\ \E report \in ReportsFor(loc[t].sent) :
          /\ executor' = [executor EXCEPT !.active_orders = UpdateOrderStatus(@, report)]
          /\ loc' = [loc EXCEPT ![t].reports = Append(@, report), ![t].i = @ + 1]
    /\ BotGoto(t, "e215")
    /\ UNCHANGED <<ledgerVars, held, lifeVars, lock, job, bot, trace, execVars, riskVars, retryVars>>

(* Lines 77-81 raise; lines 90-93 *)
SubmitRaises(t) ==
    /\ Runs(t)
    /\ pc[t] = "e79"
    /\ RaisedInTry(t, ExecutionFailure)
    /\ UNCHANGED <<ledgerVars, held, lifeVars, lock, job, bot, executor, execVars, riskVars, retryVars>>

-----------------------------------------------------------------------------
(* TradeExecutor.execute_order and cancel_order, called one after the other  *)
(* by the task "desk".  `wire` keeps what reached the venue and how the last *)
(* call ended.                                                               *)

NoId == OrderId(0)

NoReport == [order_id |-> NoId, filled_quantity |-> 0, fill_price |-> 0, remaining_quantity |-> 0]

NoOutcome ==
    [op |-> "none", order |-> NoExecOrder, raised |-> "none", returned |-> "none",
     report |-> NoReport, before |-> <<>>, posts |-> 0]

InitWire ==
    wire = [posted |-> <<>>, confirmed |-> {}, registered |-> <<>>, passes |-> 0,
            outcome |-> NoOutcome]

(* _apply_slippage, lines 166-169: price * (1 + slippage), whatever the side *)
ApplySlippage(price) == Rat(price * (SlippageScale + broker.slippage), SlippageScale)

(* Lines 99-107: the payload of PostOrder *)
Payload(order) ==
    [order_id  |-> order.order_id,
     direction |-> IF order.order_type = "BUY" THEN "ORDER_DIRECTION_BUY"
                                               ELSE "ORDER_DIRECTION_SELL",
     quantity  |-> order.quantity,
     price     |-> ApplySlippage(order.price)]

(* _register_order, lines 140-141, and _generate_order_id: an order without  *)
(* an order_id gets the next value of the counter                            *)
WithOrderId(order) ==
    IF order.order_id = NoId
    THEN [order EXCEPT !.order_id = OrderId(broker.order_counter + 1)]
    ELSE order

CounterAfter(order) ==
    IF order.order_id = NoId THEN broker.order_counter + 1 ELSE broker.order_counter

(* Lines 76-81: what the broker's branch gives for a registered order.       *)
(* TINKOFF (lines 95-122): get_figi raises or returns, the POST raises, is   *)
(* answered with another status than 200, or with the data of a report.      *)
(* MOEX (lines 124-136): an imitation, all filled at the order's price.      *)
BrokerAnswers(order) ==
    IF broker.broker_type = "TINKOFF"
    THEN {[kind |-> k, report |-> NoReport, posted |-> k = "refused"] :
              k \in {"figi_error", "post_error", "refused"}}
         \cup {[kind |-> "report", report |-> r, posted |-> TRUE] : r \in ReportsFor(order)}
    ELSE IF broker.broker_type = "MOEX"
    THEN {[kind |-> "report", posted |-> FALSE,
           report |-> [order_id |-> order.order_id, filled_quantity |-> order.quantity,
                       fill_price |-> order.price, remaining_quantity |-> 0]]}
    ELSE {[kind |-> "unsupported", report |-> NoReport, posted |-> FALSE]}

(* Line 92: _update_order_status is given OrderStatus.FAILED, an enum member *)
(* without order_id: line 152 raises before any status is written            *)
MarkFailed(active_orders) == active_orders

(* execute_order, lines 54-93 *)
ExecuteOrder(order) ==
    /\ Runs("desk")
    /\ pc["desk"] = "idle"
    /\ IF ~ValidateOrder(order)
       THEN /\ executor' = [executor EXCEPT !.active_orders = MarkFailed(@)]
            /\ broker' = broker
            /\ wire' = [wire EXCEPT !.outcome =
                          [NoOutcome EXCEPT !.op = "execute_order", !.order = order,
                                            !.raised = ExecutionFailure,
                                            !.before = executor.active_orders]]
       ELSE /\ CounterAfter(order) <= MaxOrders
            /\ \E placed \in {WithOrderId(order)} :
               \E answer \in BrokerAnswers(placed) :
                  /\ broker' = [broker EXCEPT !.order_counter = CounterAfter(order)]
                  /\ executor' = [executor EXCEPT !.active_orders =
                        IF answer.kind = "report"
                        THEN UpdateOrderStatus(RegisterOrder(@, placed), answer.report)
                        ELSE MarkFailed(RegisterOrder(@, placed))]
                  /\ wire' = [wire EXCEPT
                        !.registered = Append(@, placed.order_id),
                        !.posted = IF answer.posted THEN Append(@, Payload(placed)) ELSE @,
                        !.outcome =
                            [NoOutcome EXCEPT
                                !.op = "execute_order", !.order = placed,
                                !.raised = IF answer.kind = "report" THEN "none"
                                                                      ELSE ExecutionFailure,
                                !.returned = IF answer.kind = "report" THEN "report" ELSE "none",
                                !.report = answer.report,
                                !.before = executor.active_orders,
                                !.posts = IF answer.posted THEN 1 ELSE 0]]
    /\ UNCHANGED <<ledgerVars, held, lifeVars, taskVars, bot, trace, riskVars, retryVars>>

(* Lines 187: the statuses in which an order can be cancelled *)
Cancellable(order) == order.status \in {"PENDING", "PARTIALLY_FILLED"}

(* Lines 191-199: TINKOFF asks the venue, which confirms (200), refuses or   *)
(* fails; the other brokers ask nobody                                       *)
CancelAnswers ==
    IF broker.broker_type = "TINKOFF" THEN {"confirmed", "refused", "post_error"}
    ELSE {"not_asked"}

(* cancel_order, lines 181-206 *)
CancelOrder(order_id) ==
    /\ Runs("desk")
    /\ pc["desk"] = "idle"
    /\ \E k \in {IndexOf(executor.active_orders, order_id)} :
          IF k = 0 \/ ~Cancellable(executor.active_orders[IF k = 0 THEN 1 ELSE k])
          THEN /\ executor' = executor
               /\ wire' = [wire EXCEPT !.outcome =
                             [NoOutcome EXCEPT !.op = "cancel_order", !.order.order_id = order_id,
                                               !.returned = "False",
                                               !.before = executor.active_orders]]
          ELSE \E answer \in CancelAnswers :
                  /\ executor' = [executor EXCEPT !.active_orders =
                        IF answer \in {"refused", "post_error"} THEN @
                        ELSE [@ EXCEPT ![k].status = "CANCELLED"]]
                  /\ wire' = [wire EXCEPT
                        !.confirmed = IF answer = "confirmed" THEN @ \cup {order_id} ELSE @,
                        !.outcome =
                            [NoOutcome EXCEPT
                                !.op = "cancel_order", !.order = executor.active_orders[k],
                                !.returned = IF answer \in {"refused", "post_error"}
                                             THEN "False" ELSE "True",
                                !.before = executor.active_orders]]
    /\ UNCHANGED <<ledgerVars, held, lifeVars, taskVars, bot, trace, broker, riskVars, retryVars>>

(* The caller starts a flattening pass, and takes what the pass raised *)
DeskCloseAll ==
    /\ Runs("desk")
    /\ pc["desk"] = "idle"
    /\ wire.passes < MaxPasses
    /\ wire' = [wire EXCEPT !.passes = @ + 1, !.outcome = NoOutcome]
    /\ loc' = [loc EXCEPT !["desk"] = [NoFrame EXCEPT !.ret = "idle"]]
    /\ pc' = [pc EXCEPT !["desk"] = "e214"]
    /\ cpu' = "desk"
    /\ UNCHANGED <<ledgerVars, held, lifeVars, lock, job, botVars, broker, riskVars, retryVars>>

DeskCatches ==
    /\ Runs("desk")
    /\ pc["desk"] = "failed"
    /\ pc' = [pc EXCEPT !["desk"] = "idle"]
    /\ cpu' = "desk"
    /\ UNCHANGED <<ledgerVars, held, lifeVars, lock, job, loc, botVars, execVars, riskVars, retryVars>>

-----------------------------------------------------------------------------
(* async_retry, helpers.py lines 17-41: one call of the wrapper, statement   *)
(* by statement.  Labels hNN are lines of helpers.py.  An exception is kept  *)
(* with the attempt that raised it, so that the exceptions of two attempts   *)
(* are two objects.                                                          *)

(* The classes an exception is an instance of *)
Bases(type) ==
    CASE type = "ClientConnectionError" ->
             {"ClientConnectionError", "ClientError", "Exception", "BaseException"}
      [] type = "ValueError" -> {"ValueError", "Exception", "BaseException"}
      [] type = "CancelledError" -> {"CancelledError", "BaseException"}
      [] OTHER -> {type, "BaseException"}

(* Line 32: `except exceptions` takes an instance of any class of the tuple *)
Catches_Everything(exceptions, type) == TRUE

Catches(exceptions, type) == exceptions \cap Bases(type) # {}

(* Line 33 *)
Exhausted_Early(attempt, max_retries) == attempt >= max_retries - 1

Exhausted(attempt, max_retries) == attempt = max_retries

(* Line 37 *)
WaitFor_Constant(delay, attempt) == delay

WaitFor(delay, attempt) == delay * attempt

(* Lines 28-31: the wrapper is called; range(1, max_retries + 1) gives the   *)
(* first attempt, or nothing, and then the wrapper returns None              *)
WrapperCalled ==
    /\ retry.label = "idle"
    /\ retry' = IF retry.max_retries >= 1
                THEN [retry EXCEPT !.label = "h31", !.attempt = 1, !.attempts = 1]
                ELSE [retry EXCEPT !.label = "done", !.outcome = "returned",
                                   !.result = "None"]
    /\ UNCHANGED <<ledgerVars, held, lifeVars, taskVars, botVars, execVars, riskVars>>

(* Line 31: the operation returns and the wrapper returns its result *)
OperationReturns ==
    /\ retry.label = "h31"
    /\ retry' = [retry EXCEPT !.label = "done", !.outcome = "returned", !.result = "data"]
    /\ UNCHANGED <<ledgerVars, held, lifeVars, taskVars, botVars, execVars, riskVars>>

(* Lines 31-39: the operation raises.  An exception line 32 does not take    *)
(* leaves the wrapper; one it takes is raised again on the last attempt      *)
(* (line 35) and followed by a sleep otherwise (lines 37-39)                 *)
OperationRaises(type) ==
    /\ retry.label = "h31"
    /\ \E e \in {[type |-> type, attempt |-> retry.attempt]} :
          retry' =
              IF Catches(retry.exceptions, type) /\ ~Exhausted(retry.attempt, retry.max_retries)
              THEN [retry EXCEPT !.label = "h39",
                                 !.failures = Append(@, e),
                                 !.waits = Append(@, WaitFor(retry.delay, retry.attempt))]
              ELSE [retry EXCEPT !.label = "done", !.failures = Append(@, e),
                                 !.outcome = "raised", !.raised = e]
    /\ UNCHANGED <<ledgerVars, held, lifeVars, taskVars, botVars, execVars, riskVars>>

(* Line 39 returns; line 29 gives the next attempt and line 31 calls the     *)
(* operation again                                                           *)
RetrySleepReturns ==
    /\ retry.label = "h39"
    /\ retry' = IF retry.attempt + 1 <= retry.max_retries
                THEN [retry EXCEPT !.label = "h31", !.attempt = @ + 1, !.attempts = @ + 1]
                ELSE [retry EXCEPT !.label = "done", !.outcome = "returned",
                                   !.result = "None"]
    /\ UNCHANGED <<ledgerVars, held, lifeVars, taskVars, botVars, execVars, riskVars>>

(* The caller's task is cancelled during the sleep of line 39: the           *)
(* CancelledError is raised outside the try and leaves the wrapper           *)
RetrySleepCancelled ==
    /\ retry.label = "h39"
    /\ retry' = [retry EXCEPT !.label = "done", !.outcome = "cancelled",
                              !.raised = [type |-> "CancelledError", attempt |-> 0]]
    /\ UNCHANGED <<ledgerVars, held, lifeVars, taskVars, botVars, execVars, riskVars>>

-----------------------------------------------------------------------------
(* RiskManager.validate_signal and its checks (risk_manager.py).  Prices,    *)
(* volumes and capital are integers, max_loss_pct is in percent; the         *)
(* divisions of lines 100 and 174 are compared by cross-multiplication.      *)
(* current_positions is a sequence of [ticker, volume, price] entries with   *)
(* distinct tickers.                                                         *)

(* Line 99: total_exposure of the positions passed in *)
RECURSIVE TotalExposure(_)
TotalExposure(current_positions) ==
    IF current_positions = <<>> THEN 0
    ELSE Abs(Head(current_positions).volume * Head(current_positions).price)
         + TotalExposure(Tail(current_positions))

(* Line 146: signal.get('capital', 1) *)
CapitalOf(signal) == IF signal.has_capital THEN signal.capital ELSE 1

(* LeverageController.validate, lines 91-104: "True", "False", or the       *)
(* ZeroDivisionError of line 100                                             *)
LeverageValidate(max_leverage, current_positions, capital) ==
    IF capital = 0 THEN "ZeroDivisionError"
    ELSE IF capital > 0
    THEN IF TotalExposure(current_positions) > max_leverage * capital THEN "False" ELSE "True"
    ELSE IF TotalExposure(current_positions) < max_leverage * capital THEN "False" ELSE "True"

(* Lines 168-169: the stop-loss is on the wrong side of the price *)
WrongSide_EqualAllowed(signal) ==
    \/ signal.action = "buy" /\ signal.stop_loss > signal.price
    \/ signal.action = "sell" /\ signal.stop_loss < signal.price

WrongSide(signal) ==
    \/ signal.action = "buy" /\ signal.stop_loss >= signal.price
    \/ signal.action = "sell" /\ signal.stop_loss <= signal.price

(* Lines 174-175: loss_pct > max_loss_pct, for a positive price *)
LossTooLarge(config, signal) ==
    Abs(signal.price - signal.stop_loss) * 100 > config.max_loss_pct * signal.price

(* _validate_stop_loss, lines 155-179 *)
ValidateStopLoss(config, signal) ==
    IF ~signal.has_stop_loss
    THEN ~config.stop_loss_required
    ELSE IF WrongSide(signal) THEN FALSE
    ELSE IF LossTooLarge(config, signal) THEN FALSE
    ELSE TRUE

(* Line 141 *)
LimitReached(config, current_positions) ==
    Len(current_positions) >= config.max_active_positions

(* validate_signal, lines 133-153 *)
ValidateSignal(config, signal, current_positions) ==
    IF LimitReached(config, current_positions) THEN "False"
    ELSE LET leverage == LeverageValidate(config.max_leverage, current_positions,
                                          CapitalOf(signal))
         IN  IF leverage # "True" THEN leverage
             ELSE IF ~ValidateStopLoss(config, signal) THEN "False"
             ELSE "True"

(* The signal dict after validate_signal: line 146 reads it with             *)
(* signal.get('capital', 1) and lines 157-174 read 'stop_loss', 'price' and  *)
(* 'action'; nothing is stored in it                                         *)
SignalAfter_SetDefault(signal) ==
    [signal EXCEPT !.has_capital = TRUE, !.capital = CapitalOf(signal)]

SignalAfter(signal) == signal

(* current_positions after validate_signal: line 141 takes its len and line  *)
(* 99 reads 'volume' and 'price' of its values; nothing is stored in it      *)
PositionsAfter(current_positions) == current_positions

(* update_risk_level, lines 181-202.  drawdown and volatility are in        *)
(* thousandths and the score in ten-thousandths, exactly: line 189 is        *)
(* 4 * drawdown + 6 * volatility and the thresholds of lines 193-197 are     *)
(* 200, 500 and 1000                                                         *)
RiskLevel == {"LOW", "MODERATE", "HIGH", "EXTREME"}

RiskScore(drawdown, volatility) == 4 * drawdown + 6 * volatility

RiskLevelOf_Inclusive(risk_score) ==
    IF risk_score <= 200 THEN "LOW"
    ELSE IF risk_score <= 500 THEN "MODERATE"
    ELSE IF risk_score <= 1000 THEN "HIGH"
    ELSE "EXTREME"

RiskLevelOf(risk_score) ==
    IF risk_score < 200 THEN "LOW"
    ELSE IF risk_score < 500 THEN "MODERATE"
    ELSE IF risk_score < 1000 THEN "HIGH"
    ELSE "EXTREME"

UpdateRiskLevel(drawdown, volatility) ==
    /\ risk' = [risk EXCEPT !.op = "update_risk_level",
                            !.drawdown = drawdown, !.volatility = volatility,
                            !.previous_level = risk.risk_level,
                            !.portfolio_risk = RiskScore(drawdown, volatility),
                            !.risk_level = RiskLevelOf(RiskScore(drawdown, volatility))]
    /\ UNCHANGED <<ledgerVars, held, lifeVars, taskVars, botVars, execVars, retryVars>>

(* The gate over the signals of a cycle (spec 4.2; called at bot.py lines    *)
(* 85-88 with one snapshot of the positions): each signal is validated in    *)
(* turn against the positions passed in                                      *)
ValidateSignals(config, signals, current_positions) ==
    [k \in DOMAIN signals |-> ValidateSignal(config, signals[k], current_positions)]

(* The snapshot of the ledger the gate is given (spec 3, snapshot(); read at *)
(* bot.py line 87 as self.state.current_positions): one entry for each key   *)
(* of StateManager.positions, whatever its status, with the volume and the   *)
(* price line 99 reads                                                       *)
RECURSIVE KeysOf(_)
KeysOf(keys) ==
    IF keys = {} THEN <<>>
    ELSE LET k == CHOOSE k \in keys : TRUE IN <<k>> \o KeysOf(keys \ {k})

CurrentPositions(L) ==
    LET keys == KeysOf(DOMAIN L.positions)
    IN  [i \in DOMAIN keys |->
            [ticker |-> keys[i],
             volume |-> L.heap[L.positions[keys[i]]].volume,
             price  |-> L.heap[L.positions[keys[i]]].current_price,
             status |-> L.heap[L.positions[keys[i]]].status]]

(* One call of validate_signal *)
RiskValidate(signal, current_positions) ==
    /\ risk' = [risk EXCEPT !.op = "validate_signal", !.signal = signal, !.signals = <<>>,
                            !.positions = current_positions,
                            !.verdict = ValidateSignal(risk.config, signal, current_positions),
                            !.accepted = <<>>,
                            !.signal_after = SignalAfter(signal),
                            !.positions_after = PositionsAfter(current_positions)]
    /\ UNCHANGED <<ledgerVars, held, lifeVars, taskVars, botVars, execVars, retryVars>>

(* One pass of the gate over the signals of a cycle *)
RiskPass(signals, current_positions) ==
    /\ risk' = [risk EXCEPT !.op = "validate_signals", !.signal = NoSignal,
                            !.signals = signals, !.positions = current_positions,
                            !.verdict = "none",
                            !.accepted = ValidateSignals(risk.config, signals, current_positions),
                            !.signal_after = NoSignal,
                            !.positions_after = PositionsAfter(current_positions)]
    /\ UNCHANGED <<ledgerVars, held, lifeVars, taskVars, botVars, execVars, retryVars>>

-----------------------------------------------------------------------------
(* TradingBot.run, _main_loop and shutdown.  The task "run" is run(), "loop" *)
(* is _main_loop_task and "ext" is a caller of shutdown() from outside the   *)
(* loop.  A task's CancelledError is raised where it is suspended.           *)

Ended(label) == label \in {"done", "failed", "cancelled"}

CycleLabels == {"b77", "b113", "b82", "b85", "b91", "b94", "b97"}

(* Lines 61-70: the contexts are entered, the main loop task is created and  *)
(* run() waits for the shutdown event                                        *)
RunEnter ==
    /\ Runs("run")
    /\ pc["run"] = "b61"
    /\ bot' = [bot EXCEPT !.trade_executor = TRUE, !.main_loop_task = TRUE]
    /\ executor' = [executor EXCEPT !.session = "open"]
    /\ pc' = [pc EXCEPT !["run"] = "b70", !["loop"] = "b77"]
    /\ cpu' = NoTask
    /\ UNCHANGED <<ledgerVars, held, lifeVars, lock, job, loc, trace, execVars, riskVars, retryVars>>

(* Lines 70-72 and 39-41: the event is set; run() logs 'Bot shutdown         *)
(* completed' and leaves the executor's context, closing the session         *)
RunWake ==
    /\ Runs("run")
    /\ pc["run"] = "b70"
    /\ bot.event
    /\ trace' = [trace EXCEPT !.completed = TRUE]
    /\ executor' = [executor EXCEPT !.session = "closed"]
    /\ BotGoto("run", "e41")
    /\ UNCHANGED <<ledgerVars, held, lifeVars, lock, job, loc, bot, execVars, riskVars, retryVars>>

(* Line 42 and the end of run() *)
RunExit ==
    /\ Runs("run")
    /\ pc["run"] = "e41"
    /\ executor' = [executor EXCEPT !.active_orders = <<>>]
    /\ BotGoto("run", "done")
    /\ UNCHANGED <<ledgerVars, held, lifeVars, lock, job, loc, bot, trace, execVars, riskVars, retryVars>>

(* Line 130: cancel() on the main loop task *)
CancelMainTask_Never(b) == b

CancelMainTask(b) ==
    IF b.main_loop_task /\ ~Ended(pc["loop"]) THEN [b EXCEPT !.cancel = TRUE] ELSE b

(* Lines 125-132 of shutdown() run by task t: the label t goes to and the bot after *)
ShutdownEntry_Unguarded(t) ==
    [label |-> IF bot.main_loop_task THEN "b132" ELSE "b136",
     bot   |-> CancelMainTask([bot EXCEPT !.event = TRUE])]

ShutdownEntry(t) ==
    IF bot.event
    THEN [label |-> "done", bot |-> bot]
    ELSE [label |-> IF bot.main_loop_task THEN "b132" ELSE "b136",
          bot   |-> CancelMainTask([bot EXCEPT !.event = TRUE])]

(* shutdown() called from outside the loop *)
ExtShutdown ==
    /\ Runs("ext")
    /\ pc["ext"] = "idle"
    /\ \E e \in {ShutdownEntry("ext")} :
          /\ bot' = e.bot
          /\ BotGoto("ext", e.label)
    /\ UNCHANGED <<ledgerVars, held, lifeVars, lock, job, loc, executor, trace, execVars, riskVars, retryVars>>

(* Line 132: `await self._main_loop_task` is over when the task is *)
MainTaskOver_NoWait == TRUE

MainTaskOver == Ended(pc["loop"])

(* Lines 131-134: the await ends; a CancelledError is swallowed.  The main   *)
(* loop task awaiting itself gets its own cancellation here.                 *)
ShutdownResumes(t) ==
    /\ Runs(t)
    /\ pc[t] = "b132"
    /\ t = "loop" \/ MainTaskOver
    /\ IF t # "loop" /\ pc["loop"] = "failed"
       THEN BotGoto(t, "failed")
       ELSE BotGoto(t, "b136")
    /\ bot' = IF t = "loop" THEN [bot EXCEPT !.cancel = FALSE] ELSE bot
    /\ UNCHANGED <<ledgerVars, held, lifeVars, lock, job, loc, executor, trace, execVars, riskVars, retryVars>>

(* Lines 136-137: close_all_positions is called if there is an executor *)
ShutdownFlattens(t) ==
    /\ Runs(t)
    /\ pc[t] = "b136"
    /\ IF bot.trade_executor
       THEN /\ loc' = [loc EXCEPT ![t].ret = "b139"]
            /\ BotGoto(t, "e214")
       ELSE /\ loc' = loc
            /\ BotGoto(t, "b139")
    /\ UNCHANGED <<ledgerVars, held, lifeVars, lock, job, bot, executor, trace, execVars, riskVars, retryVars>>

(* Line 139, and the return of shutdown() and of its caller *)
ShutdownReturns(t) ==
    /\ Runs(t)
    /\ pc[t] = "b139"
    /\ trace' = [trace EXCEPT !.released = TRUE]
    /\ BotGoto(t, "done")
    /\ UNCHANGED <<ledgerVars, held, lifeVars, lock, job, loc, bot, executor, execVars, riskVars, retryVars>>

(* Lines 99-101: an exception of a cycle step is caught; it is logged at    *)
(* critical level and shutdown() is awaited                                  *)
OnException_Retry(entry) == "b77"

OnException(entry) == entry.label

Fatal(cause) ==
    \E e \in {ShutdownEntry("loop")} :
       /\ trace' = [trace EXCEPT !.critical = TRUE, !.cause = cause]
       /\ bot' = [e.bot EXCEPT !.fetch = IF cause = "fetch" THEN bot.fetch ELSE FetchIdle]
       /\ BotGoto("loop", OnException(e))

(* Line 77: the test of the while loop *)
LoopContinues == ~bot.event

(* Lines 77-79 and 105-113: the test of the loop, then the fan-out of the    *)
(* fetches, one get_ticker_data per ticker, joined by asyncio.gather         *)
LoopTop ==
    /\ Runs("loop")
    /\ pc["loop"] = "b77"
    /\ ~bot.cancel
    /\ IF LoopContinues
       THEN /\ bot.cycles < MaxCycles
            /\ bot' = [bot EXCEPT !.cycles = @ + 1,
                                  !.fetch = [ticker \in BotTickers |-> "pending"]]
            /\ trace' = [trace EXCEPT !.fetches = @ + 1]
            /\ BotGoto("loop", "b113")
       ELSE /\ bot' = bot
            /\ trace' = trace
            /\ BotGoto("loop", "done")
    /\ loc' = [loc EXCEPT !["loop"] = NoFrame]
    /\ UNCHANGED <<ledgerVars, held, lifeVars, lock, job, executor, execVars, riskVars, retryVars>>

(* get_ticker_data(ticker) returns, or raises once its retries are used up *)
FetchReturns(ticker) ==
    /\ cpu = NoTask
    /\ bot.fetch[ticker] = "pending"
    /\ bot' = [bot EXCEPT !.fetch[ticker] = "ok"]
    /\ UNCHANGED <<ledgerVars, held, lifeVars, taskVars, executor, trace, execVars, riskVars, retryVars>>

FetchRaises(ticker) ==
    /\ cpu = NoTask
    /\ bot.fetch[ticker] = "pending"
    /\ bot' = [bot EXCEPT !.fetch[ticker] = "failed"]
    /\ UNCHANGED <<ledgerVars, held, lifeVars, taskVars, executor, trace, execVars, riskVars, retryVars>>

(* Line 113: asyncio.gather gives all the results, or the first exception *)
GatherResumes ==
    /\ Runs("loop")
    /\ pc["loop"] = "b113"
    /\ ~bot.cancel
    /\ IF \E ticker \in BotTickers : bot.fetch[ticker] = "failed"
       THEN Fatal("fetch") /\ loc' = loc
       ELSE /\ \A ticker \in BotTickers : bot.fetch[ticker] = "ok"
            /\ bot' = [bot EXCEPT !.fetch = FetchIdle]
            /\ loc' = [loc EXCEPT !["loop"].results = BotTickers]
            /\ trace' = trace
            /\ BotGoto("loop", "b82")
    /\ UNCHANGED <<ledgerVars, held, lifeVars, lock, job, executor, execVars, riskVars, retryVars>>

(* Line 82: strategy_manager.analyze returns signals for some tickers *)
AnalyzeReturns ==
    /\ Runs("loop")
    /\ pc["loop"] = "b82"
    /\ ~bot.cancel
    /\ \E signals \in SUBSET loc["loop"].results :
          loc' = [loc EXCEPT !["loop"].signals = signals]
    /\ BotGoto("loop", "b85")
    /\ UNCHANGED <<ledgerVars, held, lifeVars, lock, job, bot, executor, trace, execVars, riskVars, retryVars>>

AnalyzeRaises ==
    /\ Runs("loop")
    /\ pc["loop"] = "b82"
    /\ ~bot.cancel
    /\ Fatal("analyze")
    /\ UNCHANGED <<ledgerVars, held, lifeVars, lock, job, loc, executor, execVars, riskVars, retryVars>>

(* Lines 85-88: risk_manager.validate_signals approves some of the signals *)
RiskGateReturns ==
    /\ Runs("loop")
    /\ pc["loop"] = "b85"
    /\ \E approved \in SUBSET loc["loop"].signals :
          loc' = [loc EXCEPT !["loop"].approved = approved]
    /\ BotGoto("loop", "b91")
    /\ UNCHANGED <<ledgerVars, held, lifeVars, lock, job, bot, executor, trace, execVars, riskVars, retryVars>>

RiskGateRaises ==
    /\ Runs("loop")
    /\ pc["loop"] = "b85"
    /\ Fatal("risk")
    /\ UNCHANGED <<ledgerVars, held, lifeVars, lock, job, loc, executor, execVars, riskVars, retryVars>>

(* Line 91: trade_executor.execute returns its reports; the orders it sent  *)
(* are in _active_orders, filled or partially filled                         *)
RECURSIVE Executed(_, _, _)
Executed(active_orders, approved, left) ==
    IF approved = {} THEN active_orders
    ELSE LET ticker == IF "A" \in approved THEN "A" ELSE CHOOSE x \in approved : TRUE
             order  == [order_id |-> OrderId(Len(active_orders) + 1), ticker |-> ticker,
                        order_type |-> "BUY", price |-> 100, quantity |-> 2,
                        status |-> IF ticker \in left THEN "PARTIALLY_FILLED" ELSE "FILLED",
                        filled_quantity |-> IF ticker \in left THEN 1 ELSE 2]
         IN  Executed(Append(active_orders, order), approved \ {ticker}, left)

ExecuteReturns ==
    /\ Runs("loop")
    /\ pc["loop"] = "b91"
    /\ ~bot.cancel
    /\ \E left \in SUBSET loc["loop"].approved :
          executor' = [executor EXCEPT
                          !.active_orders = Executed(@, loc["loop"].approved, left)]
    /\ trace' = [trace EXCEPT !.submits = @ + Cardinality(loc["loop"].approved)]
    /\ loc' = [loc EXCEPT !["loop"].results = loc["loop"].approved]
    /\ BotGoto("loop", "b94")
    /\ UNCHANGED <<ledgerVars, held, lifeVars, lock, job, bot, execVars, riskVars, retryVars>>

ExecuteRaises ==
    /\ Runs("loop")
    /\ pc["loop"] = "b91"
    /\ ~bot.cancel
    /\ Fatal("execute")
    /\ UNCHANGED <<ledgerVars, held, lifeVars, lock, job, loc, executor, execVars, riskVars, retryVars>>

(* Line 94: self.state.update(execution_results) makes a coroutine that is   *)
(* never awaited: the body of update does not run                            *)
LedgerUpdate ==
    /\ Runs("loop")
    /\ pc["loop"] = "b94"
    /\ BotGoto("loop", "b97")
    /\ UNCHANGED <<ledgerVars, held, lifeVars, lock, job, loc, bot, executor, trace, execVars, riskVars, retryVars>>

(* Line 97: the sleep between cycles is over *)
SleepReturns ==
    /\ Runs("loop")
    /\ pc["loop"] = "b97"
    /\ ~bot.cancel
    /\ BotGoto("loop", "b77")
    /\ UNCHANGED <<ledgerVars, held, lifeVars, lock, job, loc, bot, executor, trace, execVars, riskVars, retryVars>>

(* The cancellation reaches the main loop task where it is suspended:        *)
(* CancelledError is no Exception, line 99 does not catch it                 *)
LoopCancelled ==
    /\ Runs("loop")
    /\ pc["loop"] \in CycleLabels
    /\ bot.cancel
    /\ bot' = [bot EXCEPT !.cancel = FALSE, !.fetch = FetchIdle]
    /\ BotGoto("loop", "cancelled")
    /\ UNCHANGED <<ledgerVars, held, lifeVars, lock, job, loc, executor, trace, execVars, riskVars, retryVars>>

-----------------------------------------------------------------------------
(* The ledger on its own: fills applied one batch after another *)

InitLedger ==
    /\ positions = EmptyDict
    /\ heap = EmptyDict
    /\ last = NoLast
    /\ run = [t \in Tickers |-> NoRun]
    /\ held = {}

InitLife ==
    /\ botState = "STARTING"
    /\ tasks = <<>>
    /\ log = {}

InitTasks ==
    /\ lock = NoTask
    /\ pc = EmptyDict
    /\ job = EmptyDict
    /\ loc = EmptyDict
    /\ cpu = NoTask

Init ==
    /\ InitLedger /\ InitLife /\ InitTasks /\ InitBot /\ InitExecutor /\ InitTrace
    /\ InitBroker /\ InitWire /\ InitRetry /\ InitRisk

LedgerBatches ==
    {<<>>} \cup Singles(last.order, {"X"}, Prices, Volumes) \cup Pairs(last.order, {"X"}, {100}, {1})

UpdateCall == \E batch \in LedgerBatches : Update(batch)

Next == UpdateCall

Spec == Init /\ [][Next]_vars

-----------------------------------------------------------------------------
(* The ledger over two instruments, with reset *)

BookBatches == {<<>>} \cup Singles(last.order, Tickers, {100}, {1})

BookUpdate == \E batch \in BookBatches : Update(batch)

NextBook == BookUpdate \/ Reset

SpecBook == Init /\ [][NextBook]_vars

-----------------------------------------------------------------------------
(* The ledger with its readers: what a caller holds while the ledger moves on *)

ApiBatches == {<<>>} \cup Singles(last.order, {"X"}, {100}, {1})

ApiUpdate == \E batch \in ApiBatches : Update(batch)

ApiGetPosition == \E ticker \in {"X"} : GetPosition(ticker)

NextApi == ApiUpdate \/ ApiGetPosition \/ GetOpenPositions \/ Reset

SpecApi == Init /\ [][NextApi]_vars

-----------------------------------------------------------------------------
(* The lifecycle: the event loop runs every task it was given *)

LifeBatches == {<<o>> : o \in {x \in OrdersOver({"X"}, {100}, {1}, "o1") : IsFill(x)}}

LifeUpdate == \E batch \in LifeBatches : Update(batch)

LifeSetState == \E new_state \in BotState : SetState(new_state)

LifeStart == \E i \in 1..MaxSets : HandlerStart(i)

LifeInspect == \E i \in 1..MaxSets : HandlerInspect(i)

NextLife == LifeUpdate \/ LifeSetState \/ Reset \/ LifeStart \/ LifeInspect

SpecLife ==
    /\ Init
    /\ [][NextLife]_vars
    /\ \A i \in 1..MaxSets : WF_vars(HandlerStart(i)) /\ WF_vars(HandlerInspect(i))

-----------------------------------------------------------------------------
(* Two update calls and a reader, started together on an empty ledger *)

ConcOrders ==
    {[order_id |-> "o1", ticker |-> "X", order_type |-> "BUY", price |-> 100, volume |-> 1, executed |-> TRUE],
     [order_id |-> "o2", ticker |-> "X", order_type |-> "BUY", price |-> 120, volume |-> 1, executed |-> TRUE],
     [order_id |-> "o3", ticker |-> "X", order_type |-> "SELL", price |-> 120, volume |-> 1, executed |-> TRUE],
     [order_id |-> "o4", ticker |-> "X", order_type |-> "BUY", price |-> 120, volume |-> 1, executed |-> FALSE]}

RECURSIVE BatchesOf(_, _)
BatchesOf(orders, n) ==
    IF n = 0 THEN {<<>>}
    ELSE {<<>>} \cup {<<o>> \o b : o \in orders, b \in BatchesOf(orders, n - 1)}

UpdateCalls ==
    {[op |-> "update", execution_results |-> b, ticker |-> ""] :
        b \in BatchesOf(ConcOrders, MaxBatch) \ {<<>>}}

ReadCalls ==
    {[op |-> "get_open_positions", execution_results |-> <<>>, ticker |-> ""],
     [op |-> "get_position", execution_results |-> <<>>, ticker |-> "X"]}

InitConc ==
    /\ InitLedger
    /\ InitLife
    /\ lock = NoTask
    /\ cpu = NoTask
    /\ job \in {j \in [Tasks -> UpdateCalls \cup ReadCalls] :
                  /\ \A t \in Updaters : j[t] \in UpdateCalls
                  /\ \A t \in Readers : j[t] \in ReadCalls}
    /\ pc = [t \in Tasks |-> FirstLabel(job[t])]
    /\ loc = [t \in Tasks |-> NoLocals]
    /\ InitBot /\ InitExecutor /\ InitTrace
    /\ InitBroker /\ InitWire /\ InitRetry /\ InitRisk

NextConc == \E t \in Tasks : Step(t)

SpecConc == InitConc /\ [][NextConc]_vars

-----------------------------------------------------------------------------
(* close_all_positions called on an executor that holds some orders *)

CloseOrders ==
    {[order_id |-> OrderId(n), ticker |-> IF n = 1 THEN "A" ELSE "B", order_type |-> ty,
      price |-> 100, quantity |-> 2, status |-> st,
      filled_quantity |-> IF st = "PARTIALLY_FILLED" THEN 1 ELSE IF st = "FILLED" THEN 2 ELSE 0] :
        n \in 1..MaxOrders, ty \in {"BUY", "SELL"},
        st \in {"PENDING", "PARTIALLY_FILLED", "FILLED", "CANCELLED"}}

CloseTables ==
    {table \in UNION {[1..k -> CloseOrders] : k \in 0..MaxOrders} :
        \A k \in DOMAIN table : table[k].order_id = OrderId(k)}

InitClose ==
    /\ InitLedger
    /\ InitLife
    /\ InitBot
    /\ InitTrace
    /\ InitBroker
    /\ InitWire /\ InitRetry
    /\ InitRisk
    /\ lock = NoTask
    /\ cpu = NoTask
    /\ job = EmptyDict
    /\ executor \in {[session |-> "open", active_orders |-> table] : table \in CloseTables}
    /\ pc = [t \in {"close"} |-> "e214"]
    /\ loc = [t \in {"close"} |-> [NoFrame EXCEPT !.ret = "returned"]]

NextClose ==
    \E t \in {"close"} :
        \/ CloseAllCall(t)
        \/ ForNext(t)
        \/ PriceReturns(t)
        \/ PriceRaises(t)
        \/ SubmitReturns(t)
        \/ SubmitRaises(t)

SpecClose == InitClose /\ [][NextClose]_vars

-----------------------------------------------------------------------------
(* The bot: run(), its main loop task, and a shutdown() from outside *)

InitBotTasks ==
    /\ InitLedger
    /\ InitLife
    /\ InitBot
    /\ InitExecutor
    /\ InitTrace
    /\ InitBroker
    /\ InitWire /\ InitRetry
    /\ InitRisk
    /\ lock = NoTask
    /\ cpu = NoTask
    /\ job = EmptyDict
    /\ pc = [t \in BotTasks |-> IF t = "run" THEN "b61" ELSE IF t = "loop" THEN "none" ELSE "idle"]
    /\ loc = [t \in BotTasks |-> NoFrame]

BotFetchReturns == \E ticker \in BotTickers : FetchReturns(ticker)

BotFetchRaises == \E ticker \in BotTickers : FetchRaises(ticker)

BotShutdownResumes == \E t \in {"loop", "ext"} : ShutdownResumes(t)

BotShutdownFlattens == \E t \in {"loop", "ext"} : ShutdownFlattens(t)

BotShutdownReturns == \E t \in {"loop", "ext"} : ShutdownReturns(t)

BotCloseAll ==
    \E t \in {"loop", "ext"} :
        \/ CloseAllCall(t)
        \/ ForNext(t)
        \/ PriceReturns(t)
        \/ PriceRaises(t)
        \/ SubmitReturns(t)
        \/ SubmitRaises(t)

NextBot ==
    \/ RunEnter \/ RunWake \/ RunExit
    \/ ExtShutdown \/ BotShutdownResumes \/ BotShutdownFlattens \/ BotShutdownReturns
    \/ LoopTop \/ BotFetchReturns \/ BotFetchRaises \/ GatherResumes
    \/ AnalyzeReturns \/ AnalyzeRaises \/ RiskGateReturns \/ RiskGateRaises
    \/ ExecuteReturns \/ ExecuteRaises \/ LedgerUpdate \/ SleepReturns \/ LoopCancelled
    \/ BotCloseAll

SpecBot == InitBotTasks /\ [][NextBot]_vars

-----------------------------------------------------------------------------
(* The executor on its own: execute_order, cancel_order and flattening       *)
(* passes called one after the other                                         *)

(* Two orders that pass _validate_order, and one failing each of its tests *)
DeskOrders ==
    {[NoExecOrder EXCEPT !.ticker = "A", !.order_type = ty, !.price = 100, !.quantity = 2,
                         !.status = "PENDING"] : ty \in {"BUY", "SELL"}}
    \cup {[NoExecOrder EXCEPT !.ticker = c[1], !.order_type = "BUY", !.price = c[2],
                              !.quantity = c[3], !.status = "PENDING"] :
              c \in {<<"Z", 100, 2>>, <<"A", 0, 2>>, <<"A", 100, 0>>, <<"A", 100, -1>>}}

DeskIds == {OrderId(n) : n \in 1..(MaxOrders + 1)} \cup {CloseId(OrderId(1))}

InitExec ==
    /\ InitLedger
    /\ InitLife
    /\ InitBot
    /\ InitTrace
    /\ InitWire /\ InitRetry
    /\ InitRisk
    /\ lock = NoTask
    /\ cpu = NoTask
    /\ job = EmptyDict
    /\ executor = [session |-> "open", active_orders |-> <<>>]
    /\ broker \in {[broker_type |-> b, order_counter |-> 0, slippage |-> sl] :
                      b \in BrokerType, sl \in Slippages}
    /\ pc = [t \in {"desk"} |-> "idle"]
    /\ loc = [t \in {"desk"} |-> NoFrame]

DeskExecuteOrder == \E order \in DeskOrders : ExecuteOrder(order)

DeskCancelOrder == \E order_id \in DeskIds : CancelOrder(order_id)

DeskPass ==
    \E t \in {"desk"} :
        \/ CloseAllCall(t)
        \/ ForNext(t)
        \/ PriceReturns(t)
        \/ PriceRaises(t)
        \/ SubmitReturns(t)
        \/ SubmitRaises(t)

NextExec == DeskExecuteOrder \/ DeskCancelOrder

SpecExec == InitExec /\ [][NextExec]_vars

-----------------------------------------------------------------------------
(* The order ids: orders placed and flattening passes, one after the other *)

IdsOrders == {order \in DeskOrders : ValidateOrder(order) /\ order.order_type = "BUY"}

IdsExecuteOrder == \E order \in IdsOrders : ExecuteOrder(order)

NextIds == IdsExecuteOrder \/ DeskCloseAll \/ DeskCatches \/ DeskPass

SpecIds == InitExec /\ [][NextIds]_vars

-----------------------------------------------------------------------------
(* The risk gate on its own: validate_signal over configs, signals and       *)
(* positions                                                                 *)

RiskConfigs ==
    {[max_active_positions |-> m, max_leverage |-> 3, stop_loss_required |-> r,
      max_loss_pct |-> 5] : m \in 0..2, r \in BOOLEAN}

RiskSignals ==
    {[ticker |-> "C", action |-> a, price |-> 100, volume |-> v,
      has_stop_loss |-> hs, stop_loss |-> sl, has_capital |-> hc, capital |-> c] :
        a \in {"buy", "sell"}, v \in {1, 10},
        hs \in BOOLEAN, sl \in {90, 95, 96, 100, 104, 110},
        hc \in BOOLEAN, c \in {-100, 0, 100}}

(* Entries of current_positions: 'volume' and 'price' as line 99 reads them *)
RiskEntries(ticker) ==
    {[ticker |-> ticker, volume |-> v, price |-> 100] : v \in {1, -4}}

RiskPositions ==
    {<<>>} \cup {<<a>> : a \in RiskEntries("A")}
           \cup {<<a, b>> : a \in RiskEntries("A"), b \in RiskEntries("B")}

(* Signals that pass every check on an empty ledger *)
PassSignals ==
    {[ticker |-> t, action |-> "buy", price |-> 100, volume |-> 1,
      has_stop_loss |-> TRUE, stop_loss |-> 96, has_capital |-> TRUE, capital |-> 100] :
        t \in {"C", "D"}}

RECURSIVE SeqsUpTo(_, _)
SeqsUpTo(S, n) ==
    IF n = 0 THEN {<<>>}
    ELSE SeqsUpTo(S, n - 1) \cup
         {Append(q, x) : q \in {r \in SeqsUpTo(S, n - 1) : Len(r) = n - 1}, x \in S}

(* The signals of one cycle: at most one for an instrument *)
PassBatches ==
    {signals \in SeqsUpTo(PassSignals, MaxSignals) :
        \A i, j \in DOMAIN signals : i # j => signals[i].ticker # signals[j].ticker}

InitRiskGate ==
    /\ InitLedger
    /\ InitLife
    /\ InitTasks
    /\ InitBot
    /\ InitExecutor
    /\ InitTrace
    /\ InitBroker
    /\ InitWire /\ InitRetry
    /\ risk \in {[RiskIdle EXCEPT !.config = c] : c \in RiskConfigs}

(* The gate keeps nothing between calls: one call is taken from each config *)
RiskValidateSignal ==
    /\ risk.op = "none"
    /\ \E signal \in RiskSignals : \E current_positions \in RiskPositions :
          RiskValidate(signal, current_positions)

RiskValidateSignals ==
    /\ risk.op = "none"
    /\ \E signals \in PassBatches : \E current_positions \in RiskPositions :
          RiskPass(signals, current_positions)

NextRisk == RiskValidateSignal \/ RiskValidateSignals

SpecRisk == InitRiskGate /\ [][NextRisk]_vars

-----------------------------------------------------------------------------
(* The risk level on its own: update_risk_level called again and again      *)

Drawdowns == {0, 5, 10, 50, 125, 250}

Volatilities == {0, 20, 30, 40, 75, 150, 200}

RiskUpdateLevel ==
    \E drawdown \in Drawdowns : \E volatility \in Volatilities :
        UpdateRiskLevel(drawdown, volatility)

NextLevel == RiskUpdateLevel

SpecLevel == InitRiskGate /\ [][NextLevel]_vars

-----------------------------------------------------------------------------
(* async_retry on its own: one call of a wrapped operation under each policy *)

RetryPolicies ==
    {[RetryIdle EXCEPT !.max_retries = n, !.delay = d, !.exceptions = x] :
        n \in 1..MaxRetries, d \in {1, 2}, x \in {{"Exception"}, {"ClientError"}}}

(* What the operation may raise: a connection error, a not-found error (the  *)
(* ValueError of data_handler.py line 127), or the cancellation of the task  *)
OperationErrors == {"ClientConnectionError", "ValueError", "CancelledError"}

InitRetryCall ==
    /\ InitLedger
    /\ InitLife
    /\ InitTasks
    /\ InitBot
    /\ InitExecutor
    /\ InitTrace
    /\ InitBroker
    /\ InitWire
    /\ InitRisk
    /\ retry \in RetryPolicies

RetryOperationRaises == \E type \in OperationErrors : OperationRaises(type)

NextRetry ==
    \/ WrapperCalled
    \/ OperationReturns
    \/ RetryOperationRaises
    \/ RetrySleepReturns
    \/ RetrySleepCancelled

SpecRetry == InitRetryCall /\ [][NextRetry]_vars

-----------------------------------------------------------------------------
(* The gate after the ledger: fills are applied over two instruments, then   *)
(* validate_signal is given the ledger's positions                          *)

GateConfigs == {[DefaultConfig EXCEPT !.max_active_positions = m] : m \in 1..2}

InitGate ==
    /\ InitLedger
    /\ InitLife
    /\ InitTasks
    /\ InitBot
    /\ InitExecutor
    /\ InitTrace
    /\ InitBroker
    /\ InitWire
    /\ InitRetry
    /\ risk \in {[RiskIdle EXCEPT !.config = c] : c \in GateConfigs}

GateUpdate == risk.op = "none" /\ BookUpdate

GateValidate ==
    /\ risk.op = "none"
    /\ \E signal \in PassSignals : RiskValidate(signal, CurrentPositions(Ledger))

NextGate == GateUpdate \/ GateValidate

SpecGate == InitGate /\ [][NextGate]_vars

-----------------------------------------------------------------------------
(* Claims about the ledger.  In each, o is the order update looked at last,  *)
(* b its instrument's position before it and p that position now.            *)

NowAt(ticker) == PositionAt(Ledger, ticker)

(* C1: after BUY fills applied to an instrument that had no OPEN position,   *)
(* the position is OPEN, its volume is the sum of the fill volumes and its   *)
(* entry price times that volume is the sum of price * volume of the fills.  *)
C1_Averaging ==
    \A t \in Tickers :
        run[t].n > 0 =>
            LET p == NowAt(t)
            IN  /\ p.status = "OPEN"
                /\ p.volume = run[t].volume
                /\ p.entry_price.n * run[t].volume = run[t].notional * p.entry_price.d

C1_Witness ==
    /\ run["X"].n = 3
    /\ NowAt("X").status = "OPEN"
    /\ NowAt("X").entry_price.d # 1

(* C2: a SELL fill of exactly the OPEN volume closes the position with       *)
(* pnl = (exit price - entry price) * volume, and a BUY fill that finds the  *)
(* position CLOSED opens a new one with the fill's price and volume alone.   *)
C2_CloseThenReopen ==
    LET o == last.order
        b == last.before
        p == NowAt(o.ticker)
    IN  /\ (IsFill(o) /\ o.order_type = "SELL" /\ b.status = "OPEN" /\ o.volume = b.volume)
              => /\ p.status = "CLOSED"
                 /\ p.pnl = Rat((o.price * b.entry_price.d - b.entry_price.n) * b.volume,
                                b.entry_price.d)
        /\ (IsFill(o) /\ o.order_type = "BUY" /\ b.status = "CLOSED")
              => /\ p.status = "OPEN"
                 /\ p.entry_price = RatInt(o.price)
                 /\ p.volume = o.volume
                 /\ p.pnl = RatInt(0)

C2_Witness ==
    /\ IsFill(last.order) /\ last.order.order_type = "BUY"
    /\ last.before.status = "CLOSED" /\ last.before.pnl.n > 0
    /\ last.before.volume = 2 /\ last.order.volume = 1
    /\ NowAt(last.order.ticker).status = "OPEN"

(* C3: applying again the report of an order already applied leaves the      *)
(* position as the first application left it.                                *)
C3_Idempotent ==
    last.again => Summary(NowAt(last.order.ticker)) = last.before

(* C4: a SELL fill smaller than the OPEN volume does not close the position, *)
(* and a position just closed has pnl = (exit - entry) * its full volume.    *)
C4_ClosedOnlyWhenFlat ==
    LET o == last.order
        b == last.before
        p == NowAt(o.ticker)
    IN  (IsFill(o) /\ o.order_type = "SELL" /\ b.status = "OPEN")
           => /\ o.volume < b.volume => p.status # "CLOSED"
              /\ p.status = "CLOSED" =>
                    p.pnl = Rat((o.price * b.entry_price.d - b.entry_price.n) * p.volume,
                                b.entry_price.d)

(* C5: a fill of either side on an instrument with no OPEN position leaves   *)
(* a ledger entry with the fill's price and volume.                          *)
C5_FillOpensPosition ==
    LET o == last.order
        p == NowAt(o.ticker)
    IN  (IsFill(o) /\ last.before.status # "OPEN")
           => /\ p.entry_price = RatInt(o.price)
              /\ p.volume = o.volume

(* C7: an order that is not executed leaves the position of its instrument   *)
(* as it was, whatever its type.                                             *)
C7_UnexecutedIgnored ==
    (last.order # NoOrder /\ ~last.order.executed)
        => Summary(NowAt(last.order.ticker)) = last.before

C7_Witness ==
    /\ ~last.order.executed
    /\ last.order.order_type = "BUY"
    /\ last.before.status = "OPEN"

(* C6: after any sequence of update and reset calls, each instrument has at *)
(* most one position with status OPEN.                                       *)
OpenKeysOf(ticker) ==
    {k \in DOMAIN positions :
        heap[positions[k]].ticker = ticker /\ heap[positions[k]].status = "OPEN"}

C6_OneOpenPerInstrument ==
    \A ticker \in Tickers : Cardinality(OpenKeysOf(ticker)) <= 1

(* Reached: after a reset, both instruments are open and X took a second BUY *)
C6_Witness ==
    /\ Len(tasks) >= 1
    /\ \A ticker \in Tickers : Cardinality(OpenKeysOf(ticker)) = 1
    /\ run["X"].n >= 2

(* C8: ledger mutations are atomic with respect to each other and to        *)
(* readers: one call at a time is inside `async with self._lock`, two fill   *)
(* applications never interleave their read-modify-write of a position, and  *)
(* no reader reads while a position has its entry_price written but not its  *)
(* volume (or its status but not its pnl).                                   *)
Inside(t) == pc[t] \notin {"l77", "l120", "l128", "done"}

InReadModifyWrite(t) == pc[t] \in {"l92", "l93", "l97", "l100", "l112", "l114", "l116"}

HalfWritten(t) == pc[t] \in {"l97", "l114"}

Reading(t) == pc[t] \in {"l121", "l129"}

C8_Atomic ==
    /\ \A t \in Tasks : Inside(t) => lock = t
    /\ \A u, v \in Updaters : u # v => ~(InReadModifyWrite(u) /\ InReadModifyWrite(v))
    /\ \A r \in Readers, u \in Updaters : Reading(r) => ~HalfWritten(u)

(* Reached: one update is between its two writes of an averaged position    *)
(* that the other update opened, while the reader waits for the lock         *)
C8_Witness ==
    \E u, v \in Updaters, r \in Readers :
        /\ u # v
        /\ pc[u] = "l97" /\ lock = u
        /\ pc[v] = "done"
        /\ pc[r] \in {"l120", "l128"}
        /\ heap[loc[u].position].volume < loc[u].total_volume

(* C9: a value obtained from get_position or get_open_positions is not      *)
(* changed by a later update on the ledger.                                  *)
C9_ReadsAreCopies ==
    \A h \in held : heap[h[1]] = h[2]

(* C10: every setting of the lifecycle state is logged; a handler set off   *)
(* by SHUTTING_DOWN or ERROR eventually runs, inspects the open positions    *)
(* and emits its warning (SHUTTING_DOWN) or critical (ERROR) signal if and   *)
(* only if at least one position was OPEN when it inspected.                 *)
PreviousState(i) == IF i = 1 THEN "STARTING" ELSE tasks[i - 1].state

SignalLines(i) ==
    {l \in log : l.task = i /\ l.event \in {"positions_remain_open", "emergency_open_positions"}}

ExpectedSignal(i) ==
    IF tasks[i].state = "SHUTTING_DOWN"
    THEN Line(i, "WARNING", "positions_remain_open", "", "", tasks[i].open)
    ELSE Line(i, "CRITICAL", "emergency_open_positions", "", "", tasks[i].open)

C10_Logged(i) ==
    Line(i, "INFO", "state_changed", PreviousState(i), tasks[i].state, 0) \in log

C10_Inspected(i) ==
    IF tasks[i].pc = "done"
    THEN /\ tasks[i].open >= 0
         /\ SignalLines(i) = IF tasks[i].open > 0 THEN {ExpectedSignal(i)} ELSE {}
    ELSE SignalLines(i) = {}

C10_Safe ==
    \A i \in DOMAIN tasks :
        /\ C10_Logged(i)
        /\ tasks[i].state \in {"SHUTTING_DOWN", "ERROR"} => C10_Inspected(i)

C10_Set(i) == i \in DOMAIN tasks /\ tasks[i].state \in {"SHUTTING_DOWN", "ERROR"}

C10_Ran(i) == i \in DOMAIN tasks /\ tasks[i].pc = "done"

C10_HandlerRuns ==
    /\ []C10_Safe
    /\ \A i \in 1..MaxSets : C10_Set(i) ~> C10_Ran(i)

(* Reached: both handlers ran; ERROR found an open position and signalled,   *)
(* SHUTTING_DOWN found none and stayed silent                                *)
C10_Witness ==
    \E i, j \in DOMAIN tasks :
        /\ tasks[i].state = "ERROR" /\ tasks[i].pc = "done"
        /\ tasks[i].open > 0 /\ ExpectedSignal(i) \in log
        /\ tasks[j].state = "SHUTTING_DOWN" /\ tasks[j].pc = "done"
        /\ tasks[j].open = 0 /\ SignalLines(j) = {}

-----------------------------------------------------------------------------
(* Claims about the bot (bot.py), under SpecBot *)

ShutdownTasks == {"loop", "ext"}

(* Task t is inside close_all_positions *)
Flattening(t) == pc[t] \in {"e214", "e215", "e222", "e79"}

(* Task t is inside shutdown() and has not come to the end of the flattening *)
FlatteningAhead(t) == pc[t] \in {"b132", "b136"} \/ Flattening(t)

(* C11: run() reports 'Bot shutdown completed' and leaves the executor's    *)
(* context only after the flattening pass started by shutdown() is over: it  *)
(* is never reported while a shutdown() has its flattening pending or in     *)
(* progress.                                                                 *)
C11_CompletedAfterFlattening ==
    trace.completed => \A t \in ShutdownTasks : ~FlatteningAhead(t)

(* C12: close_all_positions never begins, nor runs, while the main loop     *)
(* task can still take a step of a cycle: shutdown() cancels the task and    *)
(* awaits it first.                                                          *)
C12_FlattensAfterMainTask ==
    \A t \in ShutdownTasks : Flattening(t) => pc["loop"] \notin CycleLabels

(* Reached: shutdown() from outside cancelled a cycle in flight, awaited the *)
(* task and is inside close_all_positions                                    *)
C12_Witness ==
    /\ pc["ext"] = "e222"
    /\ pc["loop"] = "cancelled"
    /\ bot.cycles >= 1

(* C13: an exception of a cycle step is fatal to the loop: it is logged at  *)
(* critical level and the shutdown event is set; afterwards no cycle is      *)
(* started, no fetch and no submission happens; and when the main loop task  *)
(* has ended, close_all_positions was entered.                               *)
FatalSeen == trace.cause # "none"

C13_FatalIsFailStop ==
    /\ [](FatalSeen => trace.critical /\ bot.event)
    /\ [][FatalSeen => /\ bot.cycles' = bot.cycles
                       /\ trace.fetches' = trace.fetches
                       /\ trace.submits' = trace.submits]_vars
    /\ [](FatalSeen /\ Ended(pc["loop"]) => trace.flatten # "none")

(* Reached: the execution step raised in the second cycle, the loop went     *)
(* through shutdown() and its flattening pass and ended                      *)
C13_Witness ==
    /\ trace.cause = "execute"
    /\ trace.critical
    /\ bot.cycles = 2
    /\ pc["loop"] = "done"
    /\ trace.released

(* C14: when a fatal error escaped the cycle, the lifecycle state is ERROR   *)
(* by the time the bot has terminated.                                       *)
C14_ErrorStateOnFatal ==
    (FatalSeen /\ Ended(pc["loop"]) /\ pc["run"] = "done") => botState = "ERROR"

(* C15: once shutdown() has been requested (the event is set) the main loop  *)
(* starts no new cycle: no further fetch, no further submission of an order  *)
(* derived from a signal.                                                    *)
C15_NoCycleAfterShutdown ==
    [][bot.event => /\ bot.cycles' = bot.cycles
                    /\ trace.fetches' = trace.fetches
                    /\ trace.submits' = trace.submits]_vars

(* Reached: shutdown() from outside interrupted a cycle in flight after the  *)
(* fetch, before any order was submitted                                     *)
C15_Witness ==
    /\ bot.event
    /\ pc["loop"] = "cancelled"
    /\ trace.fetches = 1
    /\ trace.submits = 0
    /\ trace.cause = "none"

(* C16: the failure of the fetch of one instrument does not abort the cycle: *)
(* the failed fetch never takes the main loop to the fatal path.             *)
C16_FetchFailureIsolated == trace.cause # "fetch"

(* C17: the fills returned by the execution step are in the ledger before    *)
(* the sleep of that cycle starts.                                           *)
C17_LedgerUpdatedBeforeSleep ==
    pc["loop"] = "b97" => \A ticker \in loc["loop"].results : ticker \in DOMAIN positions

(* C18: an execution error is confined to its instrument: it never takes the *)
(* main loop to the fatal path.                                              *)
C18_ExecutionErrorConfined == trace.cause # "execute"

-----------------------------------------------------------------------------
(* Claims about the executor's calls (trade_executor.py), under SpecExec and *)
(* SpecIds                                                                   *)

LastCall == wire.outcome

Executes == LastCall.op = "execute_order"

(* C21: when the submission fails execute_order raises TradeError: a call    *)
(* that does not return a report raises, and nothing but TradeError leaves   *)
(* execute_order.                                                            *)
C21_RaisesTradeError ==
    Executes => /\ LastCall.raised \in {"none", "TradeError"}
                /\ LastCall.raised = "none" <=> LastCall.returned = "report"

(* C22: an order that was registered and whose submission failed has status  *)
(* FAILED in _active_orders once execute_order has raised.                   *)
C22_FailedOrderIsFailed ==
    (Executes /\ LastCall.raised # "none") =>
        \A k \in DOMAIN executor.active_orders :
            executor.active_orders[k].order_id = LastCall.order.order_id =>
                executor.active_orders[k].status = "FAILED"

(* C23: an order with a price or a quantity that is not positive, or with an *)
(* instrument outside the tracked list, is rejected by execute_order itself: *)
(* the call raises, nothing is posted to the venue, nothing is registered    *)
(* and nothing in the executor changes.                                      *)
Insane(order) ==
    order.price <= 0 \/ order.quantity <= 0 \/ order.ticker \notin BotTickers

C23_InvalidRejectedLocally ==
    [][(wire'.outcome.op = "execute_order" /\ Insane(wire'.outcome.order)) =>
          /\ wire'.outcome.raised # "none"
          /\ wire'.outcome.returned = "none"
          /\ wire'.posted = wire.posted
          /\ wire'.registered = wire.registered
          /\ executor' = executor
          /\ broker' = broker]_vars

(* Reached: with one order already in the table, an order at price 0 was     *)
(* given to execute_order and the call raised                                *)
C23_Witness ==
    /\ Executes
    /\ LastCall.order.price = 0
    /\ LastCall.raised # "none"
    /\ Len(executor.active_orders) = 1
    /\ Len(wire.registered) = 1

(* C24: the price sent to the venue is the order's price moved against the   *)
(* trader by the slippage: times (1 + slippage) for a BUY, times             *)
(* (1 - slippage) for a SELL.                                                *)
Unfavourable(order) ==
    Rat(order.price * (IF order.order_type = "BUY" THEN SlippageScale + broker.slippage
                                                  ELSE SlippageScale - broker.slippage),
        SlippageScale)

C24_SlippageAgainstTrader ==
    \A j \in DOMAIN wire.posted :
        \A k \in DOMAIN executor.active_orders :
            executor.active_orders[k].order_id = wire.posted[j].order_id =>
                wire.posted[j].price = Unfavourable(executor.active_orders[k])

(* C25: an order is marked CANCELLED only when the venue has confirmed the   *)
(* cancellation, whatever the broker; a cancel_order that returns False has  *)
(* changed nothing.                                                          *)
C25_CancelledOnlyWhenConfirmed ==
    /\ \A k \in DOMAIN executor.active_orders :
          executor.active_orders[k].status = "CANCELLED" =>
              executor.active_orders[k].order_id \in wire.confirmed
    /\ (LastCall.op = "cancel_order" /\ LastCall.returned = "False") =>
          executor.active_orders = LastCall.before

(* C26: every order registered in _active_orders, under a generated id or    *)
(* under the close_ id of a flattening pass, has an order_id that no order   *)
(* registered before it had.                                                 *)
RegisteredIds ==
    wire.registered \o [k \in DOMAIN trace.sent |-> trace.sent[k].order_id]

C26_UniqueOrderIds ==
    \A i, j \in DOMAIN RegisteredIds : i # j => RegisteredIds[i] # RegisteredIds[j]

-----------------------------------------------------------------------------
(* Claims about the risk gate (risk_manager.py), under SpecRisk *)

Validated == risk.op = "validate_signal"

(* The verdicts of a pass that accepted, up to its k-th signal *)
AcceptedBefore(k) == Cardinality({j \in 1..(k - 1) : risk.accepted[j] = "True"})

(* C27: the gate never accepts a signal when the number of positions held    *)
(* plus the signals it accepted earlier in the same pass equals              *)
(* max_active_positions.                                                     *)
C27_NeverAcceptsAtMax ==
    /\ (Validated /\ Len(risk.positions) = risk.config.max_active_positions) =>
          risk.verdict # "True"
    /\ \A k \in DOMAIN risk.accepted :
          Len(risk.positions) + AcceptedBefore(k) = risk.config.max_active_positions =>
              risk.accepted[k] # "True"

(* C28: the stop-loss check rejects a signal exactly when its stop-loss is   *)
(* missing though required, is on the wrong side of the price or equal to    *)
(* it, or is further from the price than max_loss_pct of the price.          *)
StopLossMissing == ~risk.signal.has_stop_loss /\ risk.config.stop_loss_required

StopLossMisplaced ==
    /\ risk.signal.has_stop_loss
    /\ IF risk.signal.action = "buy" THEN ~(risk.signal.stop_loss < risk.signal.price)
                                     ELSE ~(risk.signal.stop_loss > risk.signal.price)

StopLossTooFar ==
    /\ risk.signal.has_stop_loss
    /\ \E distance \in {risk.signal.price - risk.signal.stop_loss,
                        risk.signal.stop_loss - risk.signal.price} :
          distance >= 0 /\ 100 * distance > risk.config.max_loss_pct * risk.signal.price

C28_StopLossCheck ==
    Validated =>
        /\ ValidateStopLoss(risk.config, risk.signal)
               <=> ~(StopLossMissing \/ StopLossMisplaced \/ StopLossTooFar)
        /\ risk.verdict = "True" => ~(StopLossMissing \/ StopLossMisplaced \/ StopLossTooFar)

(* Reached: a sell whose stop-loss equals its price was validated with room  *)
(* for a position and enough capital, and was rejected                       *)
C28_Witness ==
    /\ Validated
    /\ risk.signal.action = "sell"
    /\ risk.signal.has_stop_loss
    /\ risk.signal.stop_loss = risk.signal.price
    /\ Len(risk.positions) < risk.config.max_active_positions
    /\ CapitalOf(risk.signal) = 100
    /\ risk.verdict = "False"

(* C29: the gate rejects a signal when the notional of the positions plus    *)
(* that of the signal, divided by the capital, exceeds max_leverage.         *)
ProjectedExposure ==
    TotalExposure(risk.positions) + Abs(risk.signal.volume * risk.signal.price)

C29_ProjectedLeverage ==
    (Validated /\ CapitalOf(risk.signal) > 0
              /\ ProjectedExposure > risk.config.max_leverage * CapitalOf(risk.signal)) =>
        risk.verdict = "False"

(* C30: with a capital that is zero or negative the gate rejects the signal: *)
(* it neither raises nor accepts.                                            *)
C30_NoCapitalRejects ==
    (Validated /\ CapitalOf(risk.signal) <= 0) => risk.verdict = "False"

LevelUpdated == risk.op = "update_risk_level"

Score == 4 * risk.drawdown + 6 * risk.volatility

C32_RiskLevelThresholds ==
    LevelUpdated =>
        /\ risk.portfolio_risk = Score
        /\ Score < 200 => risk.risk_level = "LOW"
        /\ (200 <= Score /\ Score < 500) => risk.risk_level = "MODERATE"
        /\ (500 <= Score /\ Score < 1000) => risk.risk_level = "HIGH"
        /\ 1000 <= Score => risk.risk_level = "EXTREME"

(* Reached: drawdown 0.01 and volatility 0.04 (score 0.028) bring the level  *)
(* down from EXTREME to MODERATE                                             *)
C32_Witness ==
    /\ LevelUpdated
    /\ risk.previous_level = "EXTREME"
    /\ risk.drawdown = 10
    /\ risk.volatility = 40
    /\ risk.risk_level = "MODERATE"

(* Reached: a score of exactly 0.02 after a LOW level gives MODERATE         *)
C32_AtThreshold ==
    /\ LevelUpdated
    /\ risk.previous_level = "LOW"
    /\ Score = 200
    /\ risk.risk_level = "MODERATE"

(* Claims about async_retry (helpers.py), under SpecRetry *)
RetryOver == retry.label = "done"

Retryable(failure) == \E class \in retry.exceptions : class \in Bases(failure.type)

LastFailure == retry.failures[Len(retry.failures)]

(* C33: a wrapped operation that fails with a retryable exception on every   *)
(* attempt is attempted exactly max_retries times with max_retries - 1       *)
(* waits, and the exception of the last attempt is then raised to the caller *)
(* as it is.                                                                 *)
C33_RetryExhaustion ==
    (/\ RetryOver
     /\ retry.outcome # "cancelled"
     /\ Len(retry.failures) = retry.attempts
     /\ \A i \in DOMAIN retry.failures : Retryable(retry.failures[i])) =>
        /\ retry.attempts = retry.max_retries
        /\ Len(retry.waits) = retry.max_retries - 1
        /\ retry.outcome = "raised"
        /\ retry.raised = LastFailure
        /\ retry.raised.attempt = retry.max_retries

(* Reached: three connection errors under max_retries = 3; the third is      *)
(* raised after two waits                                                    *)
C33_Witness ==
    /\ RetryOver
    /\ retry.max_retries = 3
    /\ retry.attempts = 3
    /\ Len(retry.waits) = 2
    /\ retry.outcome = "raised"
    /\ retry.raised = [type |-> "ClientConnectionError", attempt |-> 3]

(* C34: a wrapped operation that fails k < max_retries times with a          *)
(* retryable exception and then succeeds returns the result after k + 1      *)
(* attempts and k waits, the i-th wait being delay * i, and the success is   *)
(* the last attempt.                                                         *)
Succeeded == retry.outcome = "returned" /\ retry.result = "data"

C34_RetrySchedule ==
    Succeeded =>
        /\ RetryOver
        /\ Len(retry.failures) < retry.max_retries
        /\ \A i \in DOMAIN retry.failures : Retryable(retry.failures[i])
        /\ retry.attempts = Len(retry.failures) + 1
        /\ Len(retry.waits) = Len(retry.failures)
        /\ \A i \in DOMAIN retry.waits : retry.waits[i] = retry.delay * i

(* Reached: max_retries = 3, delay = 1, two failures and then the result,    *)
(* after waits of 1 and 2                                                    *)
C34_Witness ==
    /\ Succeeded
    /\ retry.max_retries = 3
    /\ retry.delay = 1
    /\ Len(retry.failures) = 2
    /\ retry.attempts = 3
    /\ retry.waits = <<1, 2>>

(* C35: an exception outside the retryable set leaves the wrapper on its     *)
(* first occurrence: it is the last attempt, no wait follows it, and it is   *)
(* the exception the caller gets.                                            *)
C35_NonRetryablePropagates ==
    \A i \in DOMAIN retry.failures :
        ~Retryable(retry.failures[i]) =>
            /\ i = Len(retry.failures)
            /\ RetryOver
            /\ retry.outcome = "raised"
            /\ retry.raised = retry.failures[i]
            /\ retry.attempts = i
            /\ Len(retry.waits) = i - 1

(* Reached: with only ClientError retried, a connection error is followed by *)
(* one wait and a second attempt, whose ValueError is raised to the caller   *)
C35_Witness ==
    /\ retry.exceptions = {"ClientError"}
    /\ Len(retry.failures) = 2
    /\ retry.failures[1].type = "ClientConnectionError"
    /\ retry.raised = [type |-> "ValueError", attempt |-> 2]
    /\ retry.attempts = 2
    /\ Len(retry.waits) = 1

(* C36: get_ticker_data retries a transient network error up to its bound    *)
(* and gives up on a not-found error after a single attempt.                 *)
TickerDataPolicy ==
    retry.max_retries = 3 /\ retry.delay = 1 /\ retry.exceptions = {"Exception"}

C36_NotFoundNotRetried ==
    TickerDataPolicy =>
        /\ \A i \in DOMAIN retry.failures :
              retry.failures[i].type = "ValueError" =>
                  /\ RetryOver
                  /\ retry.outcome = "raised"
                  /\ retry.raised = retry.failures[i]
                  /\ retry.attempts = 1
        /\ \A i \in DOMAIN retry.failures :
              (retry.failures[i].type = "ClientConnectionError" /\ i < retry.max_retries) =>
                  Len(retry.waits) >= i

(* C37: with fewer than max_active_positions positions OPEN, validate_signal *)
(* does not reject a signal on the position-count rule, also after positions *)
(* on other instruments were opened and closed.                              *)
OpenCount ==
    Cardinality({i \in DOMAIN risk.positions : risk.positions[i].status = "OPEN"})

CountRejected ==
    /\ Validated
    /\ risk.verdict = "False"
    /\ Len(risk.positions) >= risk.config.max_active_positions

C37_OnlyOpenPositionsCount ==
    OpenCount < risk.config.max_active_positions => ~CountRejected

(* C38: every status change of an order of the active-order table follows   *)
(* the order state machine: a registered order is PENDING; only a PENDING or *)
(* PARTIALLY_FILLED order becomes CANCELLED; an order that is FILLED,        *)
(* REJECTED, CANCELLED or FAILED keeps its status, and is never PENDING      *)
(* again.                                                                    *)
Terminal == {"FILLED", "REJECTED", "CANCELLED", "FAILED"}

Follows(before, after) ==
    \/ after = before
    \/ /\ before = "PENDING"
       /\ after \in {"FILLED", "PARTIALLY_FILLED", "REJECTED", "CANCELLED", "FAILED"}
    \/ /\ before = "PARTIALLY_FILLED"
       /\ after \in {"FILLED", "CANCELLED"}

C38_OrderStateMachine ==
    [][\A j \in DOMAIN executor'.active_orders :
          LET after == executor'.active_orders[j]
              i == IndexOf(executor.active_orders, after.order_id)
          IN  IF i = 0 THEN Follows("PENDING", after.status)
              ELSE Follows(executor.active_orders[i].status, after.status)]_vars

(* C39: shutdown() is idempotent: once the shutdown event is set no call of *)
(* shutdown() goes past line 125, and close_all_positions is entered at most *)
(* once in the life of the bot, whichever of the main loop's fatal path and  *)
(* an outside caller comes first.                                            *)
InShutdown(label) == label \in {"b132", "b136", "b139"} \/ label \in {"e214", "e215", "e222", "e79"}

C39_ShutdownOnce ==
    [][/\ bot.event =>
            \A t \in ShutdownTasks : ~InShutdown(pc[t]) => ~InShutdown(pc'[t])
       /\ trace.flatten # "none" =>
            \A t \in ShutdownTasks : ~(pc[t] = "e214" /\ pc'[t] = "e215")]_vars

(* Reached: the fatal path of the main loop is inside close_all_positions    *)
(* and a call of shutdown() from outside has returned without doing anything *)
C39_Witness ==
    /\ trace.critical
    /\ Flattening("loop")
    /\ trace.flatten = "started"
    /\ pc["ext"] = "done"

(* Reached: the call from outside came first and is inside                   *)
(* close_all_positions; the main loop task was cancelled                     *)
C39_OutsideFirst ==
    /\ ~trace.critical
    /\ Flattening("ext")
    /\ pc["loop"] = "cancelled"

(* C19: close_all_positions is best-effort over every remaining order: when *)
(* the pass is over, an attempt was made on every order that was PENDING or  *)
(* PARTIALLY_FILLED, whatever happened while flattening the others.          *)
PassOver == "close" \in DOMAIN pc /\ pc["close"] \in {"returned", "failed"}

Remaining ==
    {executor.active_orders[k] : k \in {j \in DOMAIN executor.active_orders :
        /\ executor.active_orders[j].order_id.close = 0
        /\ NeedsFlattening(executor.active_orders[j])}}

C19_BestEffort ==
    PassOver => \A order \in Remaining : order.order_id \in trace.attempts

(* C20: each PENDING or PARTIALLY_FILLED order gets exactly one flattening  *)
(* order, of the opposite side and for the unfilled remainder; orders in     *)
(* any other status get none.  Stated for the passes in which neither the    *)
(* price lookup nor the venue failed.                                        *)
SentFor(order) ==
    {k \in DOMAIN trace.sent : trace.sent[k].order_id = CloseId(order.order_id)}

Flattens(sent, order) ==
    /\ sent.ticker = order.ticker
    /\ sent.order_type = (IF order.order_type = "BUY" THEN "SELL" ELSE "BUY")
    /\ sent.quantity = order.quantity - order.filled_quantity
    /\ sent.price \in ClosePrices

C20_OneFlatteningOrderEach ==
    (PassOver /\ trace.escaped \in {"none", "RuntimeError"}) =>
        \A k \in DOMAIN executor.active_orders :
            LET order == executor.active_orders[k]
            IN  order.order_id.close = 0 =>
                    IF NeedsFlattening(order)
                    THEN /\ Cardinality(SentFor(order)) = 1
                         /\ \A j \in SentFor(order) : Flattens(trace.sent[j], order)
                    ELSE SentFor(order) = {}

(* C40: the flattening orders close_all_positions registers during a pass   *)
(* do not disturb its traversal of the table, and only orders that were in   *)
(* the table when the pass started are flattened in it.                      *)
InTableAtStart(k) == k <= loc["close"].used

C40_TraversalUndisturbed ==
    PassOver =>
        /\ trace.escaped # "RuntimeError"
        /\ \A k \in DOMAIN executor.active_orders :
              executor.active_orders[k].order_id \in trace.attempts => InTableAtStart(k)

====
